---- MODULE Spec2Model ----
(***************************************************************************)
(* A model of the client-side protection layer of the SecureSheets SDK     *)
(* variants: the rate limiter, the response cache, the nonce tracker, the  *)
(* CSRF token manager, the signer and the request functions.               *)
(*                                                                         *)
(* Time is measured in units of five minutes (300000 ms), so that every    *)
(* duration of the sources is a whole number of units: oneHour             *)
(* (60*60*1000 ms) is 12, the default cacheTimeout (300000 ms) and the     *)
(* v1.0.0 default ttl (300 s) are 1.  Date.now() is the wall clock: it may *)
(* read any value, also an earlier one than before.                        *)
(***************************************************************************)
EXTENDS Integers, Sequences, FiniteSets, TLC

VARIABLES
    now,               \* what Date.now() reads
    rateLimitEnabled,  \* config.rateLimitEnabled
    maxRequests,       \* config.maxRequests
    requestCount,      \* SecureSheets.requestCount
    requestWindow,     \* SecureSheets.requestWindow
    admitted,          \* history: rate-limited calls admitted since the window began
    rlRet,             \* the last rate-limiter call and what it returned or threw
    variant,           \* which SDK file runs: "v100", "v120", "v130", "v381" or "p001"
    enableCache,       \* config.enableCache (v1.0.0 only)
    cacheTimeout,      \* config.cacheTimeout (v1.2.0, v1.3.0)
    cache,             \* SecureSheets.cache: a Map, as its entries in insertion order
    lastSet,           \* history: per key, the value most recently stored, or NoData
    expired,           \* history: per key, the expiry of the entry a getCached found stale since the key's last set, or NoTime
    cacheRet,          \* the last cache call and what it returned
    enableNonce,       \* config.enableNonce
    usedNonces,        \* SecureSheets.usedNonces: a Set, as its elements in insertion order
    issued,            \* history: the nonces returned since usedNonces was last empty by clearNonces
    nonceRet,          \* the last nonce call, the candidates it drew and what it returned or threw
    enableCSRF,        \* config.enableCSRF
    csrfToken,         \* SecureSheets.csrfToken, or NoToken (null)
    csrfExpiry,        \* SecureSheets.csrfExpiry, or NoTime (null)
    clearedExpiry,     \* history: the expiry of the token the last clearCSRFToken removed, until the next mint
    csrfRet,           \* the last CSRF call and what it returned
    params,            \* a parameter object of the caller: its entries in insertion order
    sigRet,            \* the last signer call: the object it was given and the string it hashed
    config,            \* config.scriptUrl, apiToken, hmacSecret, origin ('' when missing)
    inflight,          \* the requests suspended at their fetch, oldest first
    reqRet,            \* the last request step: the call or the response, and how it ended
    lastPost,          \* history: the CSRF token the previous POST carried and when it expires
    received,          \* a response object handed to validateChecksum
    sumRet,            \* the last validateChecksum call and what it returned
    enforceHttps,      \* config.enforceHttps of v1.0.0 and v3.8.1
    cfgRet,            \* the last configure call: its options, how it ended, what it found
    initialized,       \* EcomSidebar: initialized
    categories,        \* EcomSidebar: categories, as the ids of its items in order
    brands,            \* EcomSidebar: brands, as the ids of its items in order
    priceRanges,       \* EcomSidebar: priceRanges, as the ids of its items in order
    selectedFilters,   \* EcomSidebar: selectedFilters {categories, brands, priceRange}
    document,          \* the page: the sidebar's markup, its filter inputs and their change listeners
    sideRet            \* the last EcomSidebar call or input event and whether it changed anything

rateVars  == <<rateLimitEnabled, maxRequests, requestCount, requestWindow, admitted, rlRet>>
cacheVars == <<variant, enableCache, cacheTimeout, cache, lastSet, expired, cacheRet>>
nonceVars == <<enableNonce, usedNonces, issued, nonceRet>>
csrfVars  == <<enableCSRF, csrfToken, csrfExpiry, clearedExpiry, csrfRet>>
sigVars   == <<params, sigRet>>
reqVars   == <<config, inflight, reqRet, lastPost>>
sumVars   == <<received, sumRet>>
cfgVars   == <<enforceHttps, cfgRet>>
sideVars  == <<initialized, categories, brands, priceRanges, selectedFilters, document, sideRet>>
extraVars == <<sumVars, cfgVars, sideVars>>
vars      == <<now, rateVars, cacheVars, nonceVars, csrfVars, sigVars, reqVars, extraVars>>

\* What the actions of one component leave alone.
exceptRate  == <<cacheVars, nonceVars, csrfVars, sigVars, reqVars, extraVars>>
exceptCache == <<rateVars, nonceVars, csrfVars, sigVars, reqVars, extraVars>>
exceptNonce == <<rateVars, cacheVars, csrfVars, sigVars, reqVars, extraVars>>
exceptCsrf  == <<rateVars, cacheVars, nonceVars, sigVars, reqVars, extraVars>>
exceptReq   == <<extraVars>>
exceptSum   == <<rateVars, cacheVars, nonceVars, csrfVars, sigVars, reqVars, cfgVars, sideVars>>
exceptSig   == <<rateVars, cacheVars, nonceVars, csrfVars, reqVars, extraVars>>

(***************************************************************************)
(* Bounds of the model.                                                    *)
(***************************************************************************)
MaxTime  == 14   \* the clock reads 0..MaxTime in the rate-limiter specifications
MaxQuota == 3    \* config.maxRequests is drawn from 1..MaxQuota

NoTime == 0 - 1  \* "no timestamp": below every clock reading

(***************************************************************************)
(* The clock.                                                              *)
(***************************************************************************)
oneHour == 12

Max(a, b) == IF a >= b THEN a ELSE b

\* Date.now() reads another value in 0..limit.
ClockReads(limit) ==
    /\ \E t \in 0..limit : t # now /\ now' = t

(***************************************************************************)
(* Rate limiter.                                                           *)
(***************************************************************************)
NoRateCall ==
    [op |-> "none", ok |-> TRUE, enabled |-> TRUE, preCount |-> 0,
     preWindow |-> NoTime, preAdmitted |-> 0, resetTime |-> NoTime,
     currentRequests |-> 0, remaining |-> 0]

\* Mutant: the window start is moved on rollover, the count is kept.
checkRateLimit_KeepsCountOnRollover ==
    IF ~rateLimitEnabled
    THEN [ok |-> TRUE, count |-> requestCount, window |-> requestWindow, resetTime |-> NoTime]
    ELSE LET rolled == now - requestWindow > oneHour
             c == requestCount
             w == IF rolled THEN now ELSE requestWindow
         IN  IF c >= maxRequests
             THEN [ok |-> FALSE, count |-> c, window |-> w, resetTime |-> w + oneHour]
             ELSE [ok |-> TRUE, count |-> c + 1, window |-> w, resetTime |-> NoTime]

\* Mutant: the limit check is off by one (> for >=).
checkRateLimit_LimitOffByOne ==
    IF ~rateLimitEnabled
    THEN [ok |-> TRUE, count |-> requestCount, window |-> requestWindow, resetTime |-> NoTime]
    ELSE LET rolled == now - requestWindow > oneHour
             c == IF rolled THEN 0 ELSE requestCount
             w == IF rolled THEN now ELSE requestWindow
         IN  IF c > maxRequests
             THEN [ok |-> FALSE, count |-> c, window |-> w, resetTime |-> w + oneHour]
             ELSE [ok |-> TRUE, count |-> c + 1, window |-> w, resetTime |-> NoTime]

\* Mutant: the count is incremented before the limit is checked.
checkRateLimit_CountsRejected ==
    IF ~rateLimitEnabled
    THEN [ok |-> TRUE, count |-> requestCount, window |-> requestWindow, resetTime |-> NoTime]
    ELSE LET rolled == now - requestWindow > oneHour
             c == (IF rolled THEN 0 ELSE requestCount) + 1
             w == IF rolled THEN now ELSE requestWindow
         IN  IF c > maxRequests
             THEN [ok |-> FALSE, count |-> c, window |-> w, resetTime |-> w + oneHour]
             ELSE [ok |-> TRUE, count |-> c, window |-> w, resetTime |-> NoTime]

\* Mutant: the expired window is rolled before the enabled flag is looked at.
checkRateLimit_RollsWhenDisabled ==
    LET rolled == now - requestWindow > oneHour
        c == IF rolled THEN 0 ELSE requestCount
        w == IF rolled THEN now ELSE requestWindow
    IN  IF ~rateLimitEnabled
        THEN [ok |-> TRUE, count |-> c, window |-> w, resetTime |-> NoTime]
        ELSE IF c >= maxRequests
             THEN [ok |-> FALSE, count |-> c, window |-> w, resetTime |-> w + oneHour]
             ELSE [ok |-> TRUE, count |-> c + 1, window |-> w, resetTime |-> NoTime]

\* Mutant: the window is rolled at the very end of the hour (>= for >).
checkRateLimit_RollsAtBoundary ==
    IF ~rateLimitEnabled
    THEN [ok |-> TRUE, count |-> requestCount, window |-> requestWindow, resetTime |-> NoTime]
    ELSE LET rolled == now - requestWindow >= oneHour
             c == IF rolled THEN 0 ELSE requestCount
             w == IF rolled THEN now ELSE requestWindow
         IN  IF c >= maxRequests
             THEN [ok |-> FALSE, count |-> c, window |-> w, resetTime |-> w + oneHour]
             ELSE [ok |-> TRUE, count |-> c + 1, window |-> w, resetTime |-> NoTime]

\* checkRateLimit(): ok is "returned true", ~ok is "threw Rate limit exceeded",
\* count and window are the fields as the call leaves them, resetTime is the
\* instant the thrown message names.
checkRateLimit ==
    IF ~rateLimitEnabled
    THEN [ok |-> TRUE, count |-> requestCount, window |-> requestWindow, resetTime |-> NoTime]
    ELSE LET rolled == now - requestWindow > oneHour
             c == IF rolled THEN 0 ELSE requestCount
             w == IF rolled THEN now ELSE requestWindow
         IN  IF c >= maxRequests
             THEN [ok |-> FALSE, count |-> c, window |-> w, resetTime |-> w + oneHour]
             ELSE [ok |-> TRUE, count |-> c + 1, window |-> w, resetTime |-> NoTime]

\* Mutant: the status call rolls an expired window as checkRateLimit does.
getRateLimitStatus_RollsWindow ==
    LET rolled == now - requestWindow > oneHour
        c == IF rolled THEN 0 ELSE requestCount
        w == IF rolled THEN now ELSE requestWindow
    IN  [count |-> c, window |-> w, currentRequests |-> c,
         remaining |-> Max(0, maxRequests - c), resetsAt |-> w + oneHour]

\* getRateLimitStatus(): the fields as the call leaves them and the report
\* (resetsAt is the instant whose ISO string the source returns).
getRateLimitStatus ==
    [count |-> requestCount, window |-> requestWindow,
     currentRequests |-> requestCount,
     remaining |-> Max(0, maxRequests - requestCount),
     resetsAt |-> requestWindow + oneHour]

CheckRateLimit ==
    LET r == checkRateLimit
        fresh == rateLimitEnabled /\ now - requestWindow > oneHour
    IN  /\ requestCount' = r.count
        /\ requestWindow' = r.window
        /\ admitted' = (IF fresh THEN 0 ELSE admitted)
                       + (IF rateLimitEnabled /\ r.ok THEN 1 ELSE 0)
        /\ rlRet' = [NoRateCall EXCEPT !.op = "checkRateLimit", !.ok = r.ok,
                        !.enabled = rateLimitEnabled, !.preCount = requestCount,
                        !.preWindow = requestWindow, !.preAdmitted = admitted,
                        !.resetTime = r.resetTime]
        /\ UNCHANGED <<now, rateLimitEnabled, maxRequests, exceptRate>>

ResetRateLimit ==
    /\ requestCount' = 0
    /\ requestWindow' = now
    /\ admitted' = 0
    /\ rlRet' = [NoRateCall EXCEPT !.op = "resetRateLimit", !.preCount = requestCount,
                    !.preWindow = requestWindow]
    /\ UNCHANGED <<now, rateLimitEnabled, maxRequests, exceptRate>>

GetRateLimitStatus ==
    LET r == getRateLimitStatus
    IN  /\ requestCount' = r.count
        /\ requestWindow' = r.window
        /\ rlRet' = [NoRateCall EXCEPT !.op = "getRateLimitStatus",
                        !.enabled = rateLimitEnabled, !.preCount = requestCount,
                        !.preWindow = requestWindow, !.resetTime = r.resetsAt,
                        !.currentRequests = r.currentRequests,
                        !.remaining = r.remaining]
        /\ UNCHANGED <<now, rateLimitEnabled, maxRequests, admitted, exceptRate>>

\* configure({rateLimitEnabled: b})
ConfigureRateLimit ==
    /\ \E b \in BOOLEAN : b # rateLimitEnabled /\ rateLimitEnabled' = b
    /\ rlRet' = NoRateCall
    /\ UNCHANGED <<now, maxRequests, requestCount, requestWindow, admitted,
                   exceptRate>>

\* configure({maxRequests: m}): a falsy m (0) leaves the quota as it is.
ConfigureQuota ==
    /\ \E m \in 0..MaxQuota : maxRequests' = (IF m # 0 THEN m ELSE maxRequests)
    /\ rlRet' = NoRateCall
    /\ UNCHANGED <<now, rateLimitEnabled, requestCount, requestWindow, admitted,
                   exceptRate>>

RateTick ==
    /\ ClockReads(MaxTime)
    /\ rlRet' = NoRateCall
    /\ UNCHANGED <<rateLimitEnabled, maxRequests, requestCount, requestWindow, admitted,
                   exceptRate>>

(***************************************************************************)
(* Response cache.  A JavaScript Map keeps one entry per key, in insertion *)
(* order; an entry is [key, data, expiry].                                 *)
(***************************************************************************)
CacheMaxTime == 3   \* the clock reads 0..CacheMaxTime in the cache specification
MaxTTL       == 2   \* cacheTimeout and the v1.0.0 ttl argument are drawn from 1..MaxTTL

Keys   == {"", "a"}          \* cache keys a caller can store under
Values == {"v1", "v2"}       \* response payloads
NoData == "null"
NoArg  == -1                 \* an argument the caller left out (undefined)

defaultTTL == 1              \* setCached(key, data, ttl = 300), in units of 300 s

MapHas(m, k) == \E i \in 1..Len(m) : m[i].key = k

MapGet(m, k) == m[CHOOSE i \in 1..Len(m) : m[i].key = k]

MapSet(m, k, d, e) ==
    IF MapHas(m, k)
    THEN [i \in 1..Len(m) |-> IF m[i].key = k THEN [key |-> k, data |-> d, expiry |-> e]
                                             ELSE m[i]]
    ELSE Append(m, [key |-> k, data |-> d, expiry |-> e])

MapDelete(m, k) == SelectSeq(m, LAMBDA x : x.key # k)

Miss == [hit |-> FALSE, data |-> NoData, fromCache |-> FALSE]

\* Mutant: a stale entry is reported as a miss but stays in the Map.
getCached_KeepsStale(key) ==
    IF ~MapHas(cache, key)
    THEN [cache |-> cache, value |-> Miss]
    ELSE LET cached == MapGet(cache, key)
         IN  IF now > cached.expiry
             THEN [cache |-> cache, value |-> Miss]
             ELSE [cache |-> cache,
                   value |-> [hit |-> TRUE, data |-> cached.data, fromCache |-> FALSE]]

\* Mutant: every read sweeps the expired entries of all keys out of the Map.
getCached_Sweeps(key) ==
    LET swept == SelectSeq(cache, LAMBDA x : now <= x.expiry)
    IN  IF ~MapHas(swept, key)
        THEN [cache |-> swept, value |-> Miss]
        ELSE [cache |-> swept,
              value |-> [hit |-> TRUE, data |-> MapGet(swept, key).data,
                         fromCache |-> FALSE]]

\* getCached(key) of v1.2.0 (v1.3.0 and the 3.9.0 client are the same code):
\* the Map as the call leaves it and the value returned (Miss is null).
getCached(key) ==
    IF ~MapHas(cache, key)
    THEN [cache |-> cache, value |-> Miss]
    ELSE LET cached == MapGet(cache, key)
         IN  IF now > cached.expiry
             THEN [cache |-> MapDelete(cache, key), value |-> Miss]
             ELSE [cache |-> cache,
                   value |-> [hit |-> TRUE, data |-> cached.data, fromCache |-> FALSE]]

\* getCached(key) of v1.0.0: gated by config.enableCache; a hit is a copy of
\* the data marked fromCache.
getCached_v100(key) ==
    IF ~enableCache
    THEN [cache |-> cache, value |-> Miss]
    ELSE IF ~MapHas(cache, key)
    THEN [cache |-> cache, value |-> Miss]
    ELSE LET cached == MapGet(cache, key)
         IN  IF now > cached.expiry
             THEN [cache |-> MapDelete(cache, key), value |-> Miss]
             ELSE [cache |-> cache,
                   value |-> [hit |-> TRUE, data |-> cached.data, fromCache |-> TRUE]]

\* Mutant: an existing entry keeps its expiry, only its data is replaced.
setCached_KeepsExpiry(key, data) ==
    IF MapHas(cache, key)
    THEN MapSet(cache, key, data, MapGet(cache, key).expiry)
    ELSE MapSet(cache, key, data, now + cacheTimeout)

\* setCached(key, data) of v1.2.0: the Map as the call leaves it.
setCached(key, data) == MapSet(cache, key, data, now + cacheTimeout)

\* setCached(key, data, ttl = 300) of v1.0.0; ttl seconds are ttl * 1000 ms.
setCached_v100(key, data, ttl) ==
    IF ~enableCache
    THEN cache
    ELSE MapSet(cache, key, data, now + (IF ttl = NoArg THEN defaultTTL ELSE ttl))

\* JavaScript truthiness of clearCache's argument: undefined (left out) and
\* the empty string are falsy.
Truthy(given, key) == given /\ key # ""

\* clearCache(key): the Map as the call leaves it.
clearCache(given, key) ==
    IF Truthy(given, key) THEN MapDelete(cache, key) ELSE <<>>

CachingOn == variant = "v100" => enableCache

NoCacheCall ==
    [op |-> "none", key |-> "", given |-> FALSE, enabled |-> TRUE, data |-> NoData,
     ttl |-> 0, pre |-> <<>>, value |-> Miss]

SetCached ==
    \E k \in Keys, v \in Values, ttl \in {NoArg} \cup 1..MaxTTL :
        /\ variant = "v100" \/ ttl = NoArg
        /\ cache' = (IF variant = "v100" THEN setCached_v100(k, v, ttl) ELSE setCached(k, v))
        /\ lastSet' = (IF CachingOn THEN [lastSet EXCEPT ![k] = v] ELSE lastSet)
        /\ expired' = (IF CachingOn THEN [expired EXCEPT ![k] = NoTime] ELSE expired)
        /\ cacheRet' = [NoCacheCall EXCEPT !.op = "setCached", !.key = k, !.given = TRUE,
                           !.enabled = CachingOn, !.data = v, !.pre = cache,
                           !.ttl = (IF variant = "v100"
                                    THEN (IF ttl = NoArg THEN defaultTTL ELSE ttl)
                                    ELSE cacheTimeout)]
        /\ UNCHANGED <<now, variant, enableCache, cacheTimeout, exceptCache>>

GetCached ==
    \E k \in Keys :
        LET r == IF variant = "v100" THEN getCached_v100(k) ELSE getCached(k)
            stale == CachingOn /\ MapHas(cache, k) /\ now > MapGet(cache, k).expiry
        IN  /\ cache' = r.cache
            /\ expired' = (IF stale THEN [expired EXCEPT ![k] = MapGet(cache, k).expiry]
                           ELSE expired)
            /\ cacheRet' = [NoCacheCall EXCEPT !.op = "getCached", !.key = k, !.given = TRUE,
                               !.enabled = CachingOn, !.pre = cache, !.value = r.value]
            /\ UNCHANGED <<now, variant, enableCache, cacheTimeout, lastSet,
                           exceptCache>>

ClearCache ==
    \E given \in BOOLEAN, k \in Keys :
        /\ given \/ k = ""
        /\ cache' = clearCache(given, k)
        /\ cacheRet' = [NoCacheCall EXCEPT !.op = "clearCache", !.key = k, !.given = given,
                           !.enabled = CachingOn, !.pre = cache]
        /\ UNCHANGED <<now, variant, enableCache, cacheTimeout, lastSet, expired,
                       exceptCache>>

\* v1.0.0 configure({..., enableCache: b})
ConfigureEnableCache ==
    /\ variant = "v100"
    /\ enableCache' = ~enableCache
    /\ cacheRet' = NoCacheCall
    /\ UNCHANGED <<now, variant, cacheTimeout, cache, lastSet, expired, exceptCache>>

\* v1.2.0 configure({cacheTimeout: t}): a falsy t (0) leaves the timeout as it is.
ConfigureCacheTimeout ==
    /\ variant = "v120"
    /\ \E t \in 0..MaxTTL : cacheTimeout' = (IF t # 0 THEN t ELSE cacheTimeout)
    /\ cacheRet' = NoCacheCall
    /\ UNCHANGED <<now, variant, enableCache, cache, lastSet, expired, exceptCache>>

CacheTick ==
    /\ ClockReads(CacheMaxTime)
    /\ cacheRet' = NoCacheCall
    /\ UNCHANGED <<variant, enableCache, cacheTimeout, cache, lastSet, expired,
                   exceptCache>>

(***************************************************************************)
(* Nonce tracker.  A JavaScript Set keeps its elements in insertion order. *)
(* A nonce string (time in base 36 followed by 9 random base-36 digits) is *)
(* one of NumNonces identifiers; which one a draw yields is not decided by *)
(* the program.                                                            *)
(***************************************************************************)
MaxTracked == 3     \* capacity of usedNonces (1000 in the sources)
NumNonces  == 4     \* distinct nonce strings the generator can draw
MaxIssued  == 5     \* nonces issued between two clearNonces calls

maxAttempts == 10

Nonces  == 1..NumNonces
NoNonce == 0        \* null

Range(s) == {s[i] : i \in 1..Len(s)}

SetAdd(s, x) == IF x \in Range(s) THEN s ELSE Append(s, x)

SetDelete(s, x) == SelectSeq(s, LAMBDA y : y # x)

\* Mutant: the size limit is not enforced.
limitNonces_NoEviction(s) == s

\* Mutant: the newest element is evicted instead of the oldest.
limitNonces_EvictsNewest(s) ==
    IF Len(s) > MaxTracked THEN SetDelete(s, s[Len(s)]) ELSE s

\* "Limit nonce cache size": over capacity, the first element of the Set's
\* iteration order is deleted.
limitNonces(s) ==
    IF Len(s) > MaxTracked THEN SetDelete(s, Head(s)) ELSE s

\* Mutant: the loop exits after its first draw whether or not it collides.
nonceLoop_FirstDraw(cands, attempts) == attempts

\* The do-while loop: the number of attempts made when it exits, cands[i]
\* being the candidate drawn at attempt i.
RECURSIVE nonceLoop(_, _)
nonceLoop(cands, attempts) ==
    IF cands[attempts] \in Range(usedNonces) /\ attempts < maxAttempts
    THEN nonceLoop(cands, attempts + 1)
    ELSE attempts

\* generateNonce(): ok is "returned", ~ok is "threw Failed to generate unique
\* nonce"; used is the Set as the call leaves it.
generateNonce(cands) ==
    IF ~enableNonce
    THEN [ok |-> TRUE, nonce |-> NoNonce, attempts |-> 0, used |-> usedNonces]
    ELSE LET attempts == nonceLoop(cands, 1)
             nonce == cands[attempts]
         IN  IF attempts >= maxAttempts
             THEN [ok |-> FALSE, nonce |-> NoNonce, attempts |-> attempts,
                   used |-> usedNonces]
             ELSE [ok |-> TRUE, nonce |-> nonce, attempts |-> attempts,
                   used |-> limitNonces(SetAdd(usedNonces, nonce))]

\* clearNonces()
clearNonces == <<>>

\* The draws of one call: collide - 1 draws of u, then c for the rest.  A draw
\* that is to collide repeats the oldest tracked nonce.
Collisions == {1, 2, maxAttempts - 1, maxAttempts}

Draws(collide, u, c) == [i \in 1..maxAttempts |-> IF i < collide THEN u ELSE c]

NoNonceCall ==
    [op |-> "none", ok |-> TRUE, enabled |-> TRUE, nonce |-> NoNonce, attempts |-> 0,
     drawn |-> <<>>, pre |-> <<>>]

GenerateNonce ==
    \E collide \in Collisions, c \in Nonces :
        LET u == IF usedNonces = <<>> THEN c ELSE usedNonces[1]
            r == generateNonce(Draws(collide, u, c))
        IN  /\ Len(issued) < MaxIssued
            /\ usedNonces' = r.used
            /\ issued' = (IF r.ok /\ r.nonce # NoNonce THEN Append(issued, r.nonce)
                          ELSE issued)
            /\ nonceRet' = [NoNonceCall EXCEPT !.op = "generateNonce", !.ok = r.ok,
                               !.enabled = enableNonce, !.nonce = r.nonce,
                               !.attempts = r.attempts,
                               !.drawn = SubSeq(Draws(collide, u, c), 1, r.attempts),
                               !.pre = usedNonces]
            /\ UNCHANGED <<now, enableNonce, exceptNonce>>

ClearNonces ==
    /\ usedNonces' = clearNonces
    /\ issued' = <<>>
    /\ nonceRet' = [NoNonceCall EXCEPT !.op = "clearNonces", !.enabled = enableNonce,
                       !.pre = usedNonces]
    /\ UNCHANGED <<now, enableNonce, exceptNonce>>

\* configure({enableNonce: b})
ConfigureNonce ==
    /\ enableNonce' = ~enableNonce
    /\ nonceRet' = NoNonceCall
    /\ UNCHANGED <<now, usedNonces, issued, exceptNonce>>

(***************************************************************************)
(* CSRF token manager (v1.2.0, v1.3.0).  The token string                  *)
(* 'csrf_' + Date.now() + '_' + <random base-36 digits> is the pair of the *)
(* clock reading and the random part.                                      *)
(***************************************************************************)
CsrfMaxTime == 8    \* the clock reads 0..CsrfMaxTime in the CSRF specifications
NumRands    == 2    \* distinct random parts Math.random() can yield

csrfLifetime == 6   \* 30 * 60 * 1000 ms

Rands   == 1..NumRands
NoToken == [at |-> NoTime, rand |-> 0]

\* Mutant: a token is still reused at the very instant it expires (<= for <).
getCSRFToken_ReusesAtExpiry(rand) ==
    IF ~enableCSRF
    THEN [value |-> NoToken, token |-> csrfToken, expiry |-> csrfExpiry]
    ELSE IF csrfToken # NoToken /\ csrfExpiry # NoTime /\ csrfExpiry # 0
            /\ now <= csrfExpiry
    THEN [value |-> csrfToken, token |-> csrfToken, expiry |-> csrfExpiry]
    ELSE LET token == [at |-> now, rand |-> rand]
         IN  [value |-> token, token |-> token, expiry |-> now + csrfLifetime]

\* Mutant: the enabled flag is looked at after the token was refreshed.
getCSRFToken_MintsWhenDisabled(rand) ==
    IF csrfToken # NoToken /\ csrfExpiry # NoTime /\ csrfExpiry # 0 /\ now < csrfExpiry
    THEN [value |-> IF enableCSRF THEN csrfToken ELSE NoToken,
          token |-> csrfToken, expiry |-> csrfExpiry]
    ELSE LET token == [at |-> now, rand |-> rand]
         IN  [value |-> IF enableCSRF THEN token ELSE NoToken,
              token |-> token, expiry |-> now + csrfLifetime]

\* getCSRFToken(): the value returned (NoToken is null) and the two fields as
\* the call leaves them; rand is what Math.random() yields if a token is minted.
getCSRFToken(rand) ==
    IF ~enableCSRF
    THEN [value |-> NoToken, token |-> csrfToken, expiry |-> csrfExpiry]
    ELSE IF csrfToken # NoToken /\ csrfExpiry # NoTime /\ csrfExpiry # 0
            /\ now < csrfExpiry
    THEN [value |-> csrfToken, token |-> csrfToken, expiry |-> csrfExpiry]
    ELSE LET token == [at |-> now, rand |-> rand]
         IN  [value |-> token, token |-> token, expiry |-> now + csrfLifetime]

\* Mutant: only the expiry is cleared.
clearCSRFToken_KeepsToken == [token |-> csrfToken, expiry |-> NoTime]

\* clearCSRFToken(): the two fields as the call leaves them.
clearCSRFToken == [token |-> NoToken, expiry |-> NoTime]

NoCsrfCall ==
    [op |-> "none", enabled |-> TRUE, value |-> NoToken, preToken |-> NoToken,
     preExpiry |-> NoTime, cleared |-> NoTime]

GetCSRFToken ==
    \E rand \in Rands :
        LET r == getCSRFToken(rand)
        IN  /\ csrfToken' = r.token
            /\ csrfExpiry' = r.expiry
            /\ clearedExpiry' = (IF r.token # csrfToken THEN NoTime ELSE clearedExpiry)
            /\ csrfRet' = [NoCsrfCall EXCEPT !.op = "getCSRFToken", !.enabled = enableCSRF,
                              !.value = r.value, !.preToken = csrfToken,
                              !.preExpiry = csrfExpiry, !.cleared = clearedExpiry]
            /\ UNCHANGED <<now, enableCSRF, exceptCsrf>>

ClearCSRFToken ==
    LET r == clearCSRFToken
    IN  /\ csrfToken' = r.token
        /\ csrfExpiry' = r.expiry
        /\ clearedExpiry' = (IF csrfToken # NoToken THEN csrfExpiry ELSE clearedExpiry)
        /\ csrfRet' = [NoCsrfCall EXCEPT !.op = "clearCSRFToken", !.enabled = enableCSRF,
                          !.preToken = csrfToken, !.preExpiry = csrfExpiry]
        /\ UNCHANGED <<now, enableCSRF, exceptCsrf>>

\* configure({enableCSRF: b})
ConfigureCSRF ==
    /\ enableCSRF' = ~enableCSRF
    /\ csrfRet' = NoCsrfCall
    /\ UNCHANGED <<now, csrfToken, csrfExpiry, clearedExpiry, exceptCsrf>>

CsrfTick ==
    /\ ClockReads(CsrfMaxTime)
    /\ csrfRet' = NoCsrfCall
    /\ UNCHANGED <<enableCSRF, csrfToken, csrfExpiry, clearedExpiry, exceptCsrf>>

(***************************************************************************)
(* Signer.  A string is the sequence of its UTF-16 code units; a JavaScript *)
(* value is a record of its type and its number or string.  An object is    *)
(* the sequence of its entries in insertion order, with distinct keys.      *)
(***************************************************************************)
MaxParams == 2      \* entries of a parameter object

Amp    == 38        \* '&'
Equals == 61        \* '='
Digit0 == 48        \* '0'

JsNumber(n)  == [t |-> "number", n |-> n, s |-> <<>>]
JsBoolean(b) == [t |-> "boolean", n |-> IF b THEN 1 ELSE 0, s |-> <<>>]
JsString(s)  == [t |-> "string", n |-> 0, s |-> s]
JsNull       == [t |-> "null", n |-> 0, s |-> <<>>]
JsUndefined  == [t |-> "undefined", n |-> 0, s |-> <<>>]

\* The keys and values callers pass: "a", "ab", "b"; 0, 7, false, true, "",
\* "x", "x&b=x", null.
SigKeys == {<<97>>, <<97, 98>>, <<98>>}

SigValues ==
    {JsNumber(0), JsNumber(7), JsBoolean(FALSE), JsBoolean(TRUE),
     JsString(<<>>), JsString(<<120>>), JsString(<<120, Amp, 98, Equals, 120>>), JsNull}

RECURSIVE Digits(_)
Digits(n) == IF n < 10 THEN <<Digit0 + n>> ELSE Digits(n \div 10) \o <<Digit0 + (n % 10)>>

\* String(v)
StringOf(v) ==
    CASE v.t = "number"    -> Digits(v.n)
      [] v.t = "boolean"   -> IF v.n = 1 THEN <<116, 114, 117, 101>>
                              ELSE <<102, 97, 108, 115, 101>>
      [] v.t = "string"    -> v.s
      [] v.t = "null"      -> <<110, 117, 108, 108>>
      [] v.t = "undefined" -> <<117, 110, 100, 101, 102, 105, 110, 101, 100>>

\* ToBoolean(v): 0, false, "", null and undefined are falsy.
ToBoolean(v) ==
    CASE v.t = "number"    -> v.n # 0
      [] v.t = "boolean"   -> v.n = 1
      [] v.t = "string"    -> v.s # <<>>
      [] v.t = "null"      -> FALSE
      [] v.t = "undefined" -> FALSE

\* Object.keys(o), o[k] and o[k] = v.
ObjectKeys(o) == [i \in 1..Len(o) |-> o[i].k]

ObjectGet(o, k) ==
    IF \E i \in 1..Len(o) : o[i].k = k
    THEN o[CHOOSE i \in 1..Len(o) : o[i].k = k].v
    ELSE JsUndefined

ObjectSet(o, k, v) ==
    IF \E i \in 1..Len(o) : o[i].k = k
    THEN [i \in 1..Len(o) |-> IF o[i].k = k THEN [k |-> k, v |-> v] ELSE o[i]]
    ELSE Append(o, [k |-> k, v |-> v])

ObjectDelete(o, k) == SelectSeq(o, LAMBDA e : e.k # k)

\* a < b in the order Array.prototype.sort() uses by default: code unit by
\* code unit, a proper prefix first.
StringLess(a, b) ==
    \E i \in 1..(Max(Len(a), Len(b)) + 1) :
        /\ \A j \in 1..(i - 1) : j <= Len(a) /\ j <= Len(b) /\ a[j] = b[j]
        /\ \/ i = Len(a) + 1 /\ i <= Len(b)
           \/ i <= Len(a) /\ i <= Len(b) /\ a[i] < b[i]

\* Mutant: the keys are left in insertion order.
sortKeys_InsertionOrder(keys) == keys

\* keys.sort()
RECURSIVE sortKeys(_)
sortKeys(keys) ==
    IF keys = <<>> THEN <<>>
    ELSE LET least == CHOOSE k \in Range(keys) :
                          \A other \in Range(keys) : ~StringLess(other, k)
         IN  <<least>> \o sortKeys(SelectSeq(keys, LAMBDA k : k # least))

\* parts.join('&')
RECURSIVE Join(_, _)
Join(parts, sep) ==
    IF parts = <<>> THEN <<>>
    ELSE IF Len(parts) = 1 THEN parts[1]
    ELSE parts[1] \o <<sep>> \o Join(Tail(parts), sep)

\* How a signer renders the value of a key: String(params[key] || '') in
\* generateSignature (v1.3.0), `${params[key]}` in createSignature (v1.0.0,
\* v3.8.1).
renderValue(v, value) ==
    IF v \in {"v130", "p001"}
    THEN IF ToBoolean(value) THEN StringOf(value) ELSE <<>>
    ELSE StringOf(value)

\* The string generateSignature / createSignature hands to computeHMAC.
signatureString(v, o) ==
    LET sortedKeys == sortKeys(ObjectKeys(o))
    IN  Join([i \in 1..Len(sortedKeys) |->
                 sortedKeys[i] \o <<Equals>> \o renderValue(v, ObjectGet(o, sortedKeys[i]))],
             Amp)

SignerVariants == {"v100", "v130", "v381", "p001"}

NoSigCall == [op |-> "none", variant |-> "v130", params |-> <<>>, string |-> <<>>]

\* generateSignature(params) / createSignature(params, secret)
GenerateSignature ==
    \E v \in SignerVariants :
        /\ sigRet' = [NoSigCall EXCEPT !.op = "sign", !.variant = v, !.params = params,
                         !.string = signatureString(v, params)]
        /\ UNCHANGED <<now, params, exceptSig>>

\* The caller writes params[k] = value.
SetParam ==
    \E k \in SigKeys, value \in SigValues :
        /\ Len(ObjectSet(params, k, value)) <= MaxParams
        /\ params' = ObjectSet(params, k, value)
        /\ params' # params
        /\ sigRet' = NoSigCall
        /\ UNCHANGED <<now, exceptSig>>

\* The caller runs delete params[k].
DeleteParam ==
    \E k \in SigKeys :
        /\ params' = ObjectDelete(params, k)
        /\ params' # params
        /\ sigRet' = NoSigCall
        /\ UNCHANGED <<now, exceptSig>>

(***************************************************************************)
(* Request functions.  A call runs to its fetch in one step (the thread is *)
(* cooperative and suspends only there) and joins the requests in flight;  *)
(* the answer of the transport resumes it in a second step.                *)
(***************************************************************************)
MaxInflight == 2    \* requests suspended at their fetch at one time
ReqMaxTime  == 1    \* the clock reads 0..ReqMaxTime in the request specification
ReqQuota    == 2    \* config.maxRequests in the request specification

\* The property names the request functions write, and the strings they put
\* together.
kAction    == <<97, 99, 116, 105, 111, 110>>                    \* "action"
kToken     == <<116, 111, 107, 101, 110>>                       \* "token"
kOrigin    == <<111, 114, 105, 103, 105, 110>>                  \* "origin"
kTimestamp == <<116, 105, 109, 101, 115, 116, 97, 109, 112>>    \* "timestamp"
kReferrer  == <<114, 101, 102, 101, 114, 114, 101, 114>>        \* "referrer"
kSignature == <<115, 105, 103, 110, 97, 116, 117, 114, 101>>    \* "signature"
kCsrfDash  == <<99, 115, 114, 102, 45, 116, 111, 107, 101, 110>> \* "csrf-token"
kCsrfToken == <<99, 115, 114, 102, 84, 111, 107, 101, 110>>     \* "csrfToken"
sCsrf      == <<99, 115, 114, 102, 95>>                         \* "csrf_"
sColon     == <<58>>                                            \* ":"
sQuote     == <<34>>                                            \* '"'
sHere      == <<119>>                                           \* window.location: "w"
sList      == <<120>>                                           \* the action callers ask for: "x"

\* config: the values configure() stores, '' for one it was not given.
Configured == [scriptUrl |-> <<117>>, apiToken |-> <<84>>, hmacSecret |-> <<83>>,
               origin |-> <<111>>]

NotYetConfigured == [scriptUrl |-> <<>>, apiToken |-> <<>>, hmacSecret |-> <<>>,
                     origin |-> <<>>]

\* The configurations a page can reach: configure() of v1.0.0 takes the three
\* credentials together or throws, that of v3.8.1 insists on scriptUrl only,
\* the others store whatever they are given; only v1.3.0 has config.origin.
Configs(v) ==
    {Configured, NotYetConfigured}
    \cup (IF v \in {"v120", "v130", "p001"}
          THEN {[Configured EXCEPT !.scriptUrl = <<>>]}
          ELSE {})
    \cup (IF v \in {"v120", "v130", "p001", "v381"}
          THEN {[Configured EXCEPT !.apiToken = <<>>],
                [Configured EXCEPT !.hmacSecret = <<>>]}
          ELSE {})
    \cup (IF v \in {"v130", "p001"} THEN {[Configured EXCEPT !.origin = <<>>]} ELSE {})

\* !config.scriptUrl || !config.apiToken || !config.hmacSecret
NotConfigured ==
    config.scriptUrl = <<>> \/ config.apiToken = <<>> \/ config.hmacSecret = <<>>

\* computeHMAC(message, secret): a keyed hash without collisions, written as
\* '#' secret '#' message in place of the hex digest.
computeHMAC(message, secret) == <<35>> \o secret \o <<35>> \o message

\* new Date().toISOString(), Date.now().toString(): the clock reading in digits.
Timestamp == Digits(now)

\* The token string 'csrf_' + Date.now() + '_' + random of a stored token.
TokenString(t) ==
    IF t = NoToken THEN <<>> ELSE sCsrf \o Digits(t.at) \o <<95>> \o Digits(t.rand)

\* generateCSRFToken(origin, secret) of v3.8.1.
generateCSRFToken(origin, secret) ==
    Digits(now) \o sColon \o computeHMAC(Digits(now) \o sColon \o origin, secret)

\* JSON.stringify(o): properties in insertion order, undefined ones left out.
JSONvalue(value) ==
    IF value.t = "string" THEN sQuote \o value.s \o sQuote ELSE StringOf(value)

JSONstringify(o) ==
    LET kept == SelectSeq(o, LAMBDA e : e.v.t # "undefined")
    IN  <<123>> \o Join([i \in 1..Len(kept) |->
                            sQuote \o kept[i].k \o sQuote \o sColon \o JSONvalue(kept[i].v)],
                        44) \o <<125>>

\* How a call or a response handler ended when it did not return.
NoError == [kind |-> "none", code |-> "", status |-> 0]

ErrorOf(kind) == [NoError EXCEPT !.kind = kind]

\* No cache key: the step did not go to the cache.
NoKey == <<>>

\* A request suspended at its fetch: what it put on the wire and what it
\* keeps for the time after.  own is the private copy of the parameters (empty
\* when the function works on the caller's object), key the cache key it
\* looked up, cacheTimeout the config.cacheTimeout in force when it started.
NoFlight ==
    [variant |-> "none", method |-> "none", useCache |-> FALSE, ttl |-> NoArg,
     action |-> <<>>, own |-> <<>>, wire |-> <<>>, signed |-> <<>>, csrf |-> <<>>,
     nonce |-> NoNonce, key |-> <<>>, cacheTimeout |-> 0]

\* What a call leaves behind: Unchanged, but for the fields a function names.
\* useCache is the option the call was given, key the cache key the step read
\* or wrote.
Unchanged ==
    [outcome |-> "threw", error |-> NoError, value |-> NoData,
     count |-> requestCount, window |-> requestWindow, admits |-> FALSE,
     cache |-> cache, used |-> usedNonces, token |-> csrfToken, expiry |-> csrfExpiry,
     params |-> params, flight |-> NoFlight, useCache |-> FALSE, key |-> NoKey]

Throw(kind) == [Unchanged EXCEPT !.outcome = "threw", !.error = ErrorOf(kind)]

\* { ...base, ...o }
RECURSIVE Spread(_, _)
Spread(base, o) ==
    IF o = <<>> THEN base ELSE Spread(ObjectSet(base, o[1].k, o[1].v), Tail(o))

\* Mutant: the call is let through but counted only after its network call,
\* so the check and the increment are not one step.
Admitted_CountsLater(rl) ==
    [Unchanged EXCEPT !.window = rl.window, !.admits = rateLimitEnabled /\ rl.ok]

\* checkRateLimit() inside a request function: the counters as it leaves them.
Admitted(rl) ==
    [Unchanged EXCEPT !.count = rl.count, !.window = rl.window,
                      !.admits = rateLimitEnabled /\ rl.ok]

RateLimited_ClearsCache(rl) ==
    [Throw("rateLimit") EXCEPT !.count = rl.count, !.window = rl.window, !.cache = <<>>]

RateLimited(rl) ==
    [Throw("rateLimit") EXCEPT !.count = rl.count, !.window = rl.window]

\* makeRequest(params, options) of v1.0.0, up to its fetch.
makeRequest_v100(useCache, ttl) ==
    IF NotConfigured THEN Throw("config")
    ELSE
    LET rl == checkRateLimit
    IN  IF ~rl.ok THEN RateLimited(rl)
        ELSE
        LET p1 == ObjectSet(params, kToken, JsString(config.apiToken))
            p2 == ObjectSet(p1, kTimestamp, JsString(Timestamp))
            p3 == ObjectSet(p2, kReferrer, JsString(sHere))
            requestParams == ObjectSet(p3, kOrigin, JsString(sHere))
            reads == useCache /\ ~ToBoolean(ObjectGet(requestParams, kAction))
            cacheKey == JSONstringify(requestParams)
            cached == IF reads THEN getCached_v100(cacheKey)
                      ELSE [cache |-> cache, value |-> Miss]
            signed == signatureString("v100", requestParams)
            sent == ObjectSet(requestParams, kSignature,
                              JsString(computeHMAC(signed, config.hmacSecret)))
            looked == [Admitted(rl) EXCEPT !.useCache = useCache, !.cache = cached.cache,
                                           !.key = IF reads THEN cacheKey ELSE NoKey]
        IN  IF cached.value.hit
            THEN [looked EXCEPT !.outcome = "returned", !.value = cached.value.data]
            ELSE [looked EXCEPT !.outcome = "sent",
                     !.flight = [NoFlight EXCEPT !.useCache = useCache, !.ttl = ttl,
                                    !.own = sent, !.wire = sent, !.signed = signed]]

\* generateAuthHeaders(action, params) of v1.2.0: the nonce call and the
\* message that is signed.
generateAuthHeaders(action, cands) ==
    LET n == generateNonce(cands)
        message == config.apiToken \o sColon \o Timestamp \o sColon \o action
                   \o (IF n.nonce # NoNonce THEN sColon \o Digits(n.nonce) ELSE <<>>)
    IN  [ok |-> n.ok, used |-> n.used, nonce |-> n.nonce, signed |-> message,
         signature |-> computeHMAC(message, config.hmacSecret)]

\* Mutant: the cache is looked at before the rate limiter, so a request
\* answered from the cache is not counted.
makeRequest_v120_CacheFirst(action, useCache, cands) ==
    LET cacheKey == action \o sColon \o JSONstringify(params)
        cached == IF useCache THEN getCached(cacheKey)
                  ELSE [cache |-> cache, value |-> Miss]
        found == [Unchanged EXCEPT !.useCache = useCache, !.cache = cached.cache,
                                   !.key = IF useCache THEN cacheKey ELSE NoKey]
        rl == checkRateLimit
        queryParams == Spread(<<[k |-> kAction, v |-> JsString(action)]>>, params)
        headers == generateAuthHeaders(action, cands)
        looked == [found EXCEPT !.count = rl.count, !.window = rl.window,
                                !.admits = rateLimitEnabled /\ rl.ok]
    IN  IF cached.value.hit
        THEN [found EXCEPT !.outcome = "returned", !.value = cached.value.data]
        ELSE IF ~rl.ok
        THEN [looked EXCEPT !.outcome = "threw", !.error = ErrorOf("rateLimit")]
        ELSE IF ~headers.ok
        THEN [looked EXCEPT !.outcome = "threw", !.error = ErrorOf("nonce")]
        ELSE [looked EXCEPT !.outcome = "sent",
                 !.used = headers.used,
                 !.flight = [NoFlight EXCEPT !.useCache = useCache, !.action = action,
                                !.wire = queryParams, !.signed = headers.signed,
                                !.nonce = headers.nonce]]

\* Mutant: the auth headers are generated before the cache is looked at, so a
\* request answered from the cache has consumed a nonce.
makeRequest_v120_SignsFirst(action, useCache, cands) ==
    LET rl == checkRateLimit
    IN  IF ~rl.ok THEN RateLimited(rl)
        ELSE
        LET cacheKey == action \o sColon \o JSONstringify(params)
            cached == IF useCache THEN getCached(cacheKey)
                      ELSE [cache |-> cache, value |-> Miss]
            queryParams == Spread(<<[k |-> kAction, v |-> JsString(action)]>>, params)
            headers == generateAuthHeaders(action, cands)
            looked == [Admitted(rl) EXCEPT !.useCache = useCache, !.cache = cached.cache,
                                           !.key = IF useCache THEN cacheKey ELSE NoKey]
        IN  IF ~headers.ok
            THEN [looked EXCEPT !.outcome = "threw", !.error = ErrorOf("nonce")]
            ELSE IF cached.value.hit
            THEN [looked EXCEPT !.outcome = "returned", !.value = cached.value.data,
                                !.used = headers.used]
            ELSE [looked EXCEPT !.outcome = "sent",
                     !.used = headers.used,
                     !.flight = [NoFlight EXCEPT !.useCache = useCache, !.action = action,
                                    !.wire = queryParams, !.signed = headers.signed,
                                    !.nonce = headers.nonce]]

\* makeRequest(action, params, options) of v1.2.0, up to its fetch.
makeRequest_v120(action, useCache, cands) ==
    LET rl == checkRateLimit
    IN  IF ~rl.ok THEN RateLimited(rl)
        ELSE
        LET cacheKey == action \o sColon \o JSONstringify(params)
            cached == IF useCache THEN getCached(cacheKey)
                      ELSE [cache |-> cache, value |-> Miss]
            queryParams == Spread(<<[k |-> kAction, v |-> JsString(action)]>>, params)
            headers == generateAuthHeaders(action, cands)
            looked == [Admitted(rl) EXCEPT !.useCache = useCache, !.cache = cached.cache,
                                           !.key = IF useCache THEN cacheKey ELSE NoKey]
        IN  IF cached.value.hit
            THEN [looked EXCEPT !.outcome = "returned", !.value = cached.value.data]
            ELSE IF ~headers.ok
            THEN [looked EXCEPT !.outcome = "threw", !.error = ErrorOf("nonce")]
            ELSE [looked EXCEPT !.outcome = "sent",
                     !.used = headers.used,
                     !.flight = [NoFlight EXCEPT !.useCache = useCache, !.action = action,
                                    !.wire = queryParams, !.signed = headers.signed,
                                    !.nonce = headers.nonce]]

\* makePostRequest(action, body, options) of v1.2.0, up to its fetch.
makePostRequest_v120(action, cands, rand) ==
    LET rl == checkRateLimit
    IN  IF ~rl.ok THEN RateLimited(rl)
        ELSE
        LET headers == generateAuthHeaders(action, cands)
            csrf == getCSRFToken(rand)
            body == IF enableCSRF
                    THEN ObjectSet(params, kCsrfToken, JsString(TokenString(csrf.value)))
                    ELSE params
            sent == Spread(<<[k |-> kAction, v |-> JsString(action)]>>, body)
        IN  IF ~headers.ok
            THEN [Admitted(rl) EXCEPT !.outcome = "threw", !.error = ErrorOf("nonce")]
            ELSE [Admitted(rl) EXCEPT !.outcome = "sent", !.used = headers.used,
                     !.token = csrf.token, !.expiry = csrf.expiry, !.params = body,
                     !.flight = [NoFlight EXCEPT !.action = action,
                                    !.wire = sent,
                                    !.signed = headers.signed, !.nonce = headers.nonce,
                                    !.csrf = TokenString(csrf.value)]]

\* The fields makeRequest / makePostRequest of v1.3.0 write into the object
\* they were given before anything else.
Enriched(o) ==
    LET p1 == ObjectSet(o, kToken, JsString(config.apiToken))
        p2 == IF config.origin # <<>> THEN ObjectSet(p1, kOrigin, JsString(config.origin))
              ELSE p1
    IN  ObjectSet(p2, kTimestamp, JsString(Timestamp))

\* makeRequest(params, options) of v1.3.0, up to its fetch.
makeRequest_v130(useCache) ==
    LET rl == checkRateLimit
    IN  IF ~rl.ok THEN RateLimited(rl)
        ELSE
        LET p == Enriched(params)
            cacheKey == JSONstringify(p)
            cached == IF useCache THEN getCached(cacheKey)
                      ELSE [cache |-> cache, value |-> Miss]
            signed == signatureString("v130", p)
            sent == ObjectSet(p, kSignature,
                              JsString(computeHMAC(signed, config.hmacSecret)))
            looked == [Admitted(rl) EXCEPT !.useCache = useCache, !.cache = cached.cache,
                                           !.key = IF useCache THEN cacheKey ELSE NoKey]
        IN  IF cached.value.hit
            THEN [looked EXCEPT !.outcome = "returned", !.value = cached.value.data,
                                !.params = p]
            ELSE [looked EXCEPT !.outcome = "sent",
                     !.params = sent,
                     !.flight = [NoFlight EXCEPT !.useCache = useCache, !.wire = sent,
                                    !.signed = signed]]

\* makePostRequest(body, options) of v1.3.0, up to its fetch.
makePostRequest_v130(rand) ==
    LET rl == checkRateLimit
    IN  IF ~rl.ok THEN RateLimited(rl)
        ELSE
        LET csrf == getCSRFToken(rand)
            p == Enriched(params)
            body == IF enableCSRF
                    THEN ObjectSet(p, kCsrfDash, JsString(TokenString(csrf.value)))
                    ELSE p
            signed == signatureString("v130", body)
            sent == ObjectSet(body, kSignature,
                              JsString(computeHMAC(signed, config.hmacSecret)))
        IN  [Admitted(rl) EXCEPT !.outcome = "sent", !.token = csrf.token,
                !.expiry = csrf.expiry, !.params = sent,
                !.flight = [NoFlight EXCEPT !.wire = sent, !.signed = signed,
                               !.csrf = TokenString(csrf.value)]]

\* makeRequest(params, options) of the 1.3.0 client bundled with the sidebar.
makeRequest_p001(useCache) ==
    LET rl == checkRateLimit
    IN  IF ~rl.ok THEN RateLimited(rl)
        ELSE
        LET p == Enriched(params)
            cacheKey == JSONstringify(p)
            cached == IF useCache THEN getCached(cacheKey)
                      ELSE [cache |-> cache, value |-> Miss]
            signed == signatureString("p001", p)
            sent == ObjectSet(p, kSignature,
                              JsString(computeHMAC(signed, config.hmacSecret)))
            looked == [Admitted(rl) EXCEPT !.useCache = useCache, !.cache = cached.cache,
                                           !.key = IF useCache THEN cacheKey ELSE NoKey]
        IN  IF cached.value.hit
            THEN [looked EXCEPT !.outcome = "returned", !.value = cached.value.data,
                                !.params = p]
            ELSE [looked EXCEPT !.outcome = "sent",
                     !.params = sent,
                     !.flight = [NoFlight EXCEPT !.useCache = useCache, !.wire = sent,
                                    !.signed = signed]]

\* makeProtectedRequest(params, options) of v3.8.1, up to its fetch.
makeProtectedRequest_v381 ==
    IF NotConfigured THEN Throw("config")
    ELSE IF ~ToBoolean(ObjectGet(params, kAction)) THEN Throw("params")
    ELSE
    LET rl == checkRateLimit
    IN  IF ~rl.ok THEN RateLimited(rl)
        ELSE
        LET p1 == ObjectSet(params, kToken, JsString(config.apiToken))
            p2 == ObjectSet(p1, kTimestamp, JsString(Timestamp))
            p3 == ObjectSet(p2, kOrigin, JsString(sHere))
            requestParams == ObjectSet(p3, kReferrer, JsString(sHere))
            signed == signatureString("v381", requestParams)
            sent == ObjectSet(requestParams, kSignature,
                              JsString(computeHMAC(signed, config.hmacSecret)))
        IN  [Admitted(rl) EXCEPT !.outcome = "sent",
                !.flight = [NoFlight EXCEPT !.own = sent, !.wire = sent, !.signed = signed]]

\* makePostRequest(data, options) of v3.8.1, up to its fetch.
makePostRequest_v381 ==
    IF NotConfigured THEN Throw("config")
    ELSE
    LET rl == checkRateLimit
    IN  IF ~rl.ok THEN RateLimited(rl)
        ELSE
        LET p1 == ObjectSet(params, kToken, JsString(config.apiToken))
            requestData == ObjectSet(p1, kTimestamp, JsString(Timestamp))
            csrfToken_ == IF enableCSRF THEN generateCSRFToken(sHere, config.hmacSecret)
                          ELSE <<>>
        IN  [Admitted(rl) EXCEPT !.outcome = "sent",
                !.flight = [NoFlight EXCEPT !.own = requestData, !.wire = requestData,
                               !.csrf = csrfToken_]]

\* What the transport answers: response.ok, response.status and the body,
\* which is a success payload, a structured error { error, code } or text
\* that response.json() cannot parse.
Responses ==
    {[ok |-> TRUE, status |-> 200, body |-> "data", data |-> d, code |-> ""] : d \in Values}
    \cup {[ok |-> TRUE, status |-> 200, body |-> "garbage", data |-> NoData, code |-> ""],
          [ok |-> FALSE, status |-> 500, body |-> "error", data |-> NoData, code |-> "ERR_X"],
          [ok |-> FALSE, status |-> 500, body |-> "garbage", data |-> NoData, code |-> ""]}

Return(data) == [Unchanged EXCEPT !.outcome = "returned", !.value = data]

\* parseError(errorData)
parseError(response) ==
    [Throw("server") EXCEPT !.error.code = response.code]

\* handleErrorResponse(response) of v1.2.0 and v1.3.0.
handleErrorResponse(response) ==
    IF response.body = "garbage"
    THEN [Throw("http") EXCEPT !.error.status = response.status]
    ELSE parseError(response)

\* makeRequest of v1.0.0 from its fetch on.
resume_v100(f, response) ==
    IF ~response.ok THEN [Throw("http") EXCEPT !.error.status = response.status]
    ELSE IF response.body = "garbage" THEN Throw("syntax")
    ELSE IF f.useCache
    THEN [Return(response.data) EXCEPT
             !.key = JSONstringify(f.own),
             !.cache = setCached_v100(JSONstringify(f.own), response.data, f.ttl)]
    ELSE Return(response.data)

\* Mutant: a response is stored only if its key has no entry yet, so the
\* first of two overlapping requests to complete wins.
resume_v120_FirstWins(f, response) ==
    IF ~response.ok THEN handleErrorResponse(response)
    ELSE IF response.body = "garbage" THEN Throw("syntax")
    ELSE IF f.useCache
    THEN [Return(response.data) EXCEPT
             !.key = f.action \o sColon \o JSONstringify(params),
             !.cache = IF MapHas(cache, f.action \o sColon \o JSONstringify(params))
                       THEN cache
                       ELSE setCached(f.action \o sColon \o JSONstringify(params),
                                      response.data)]
    ELSE Return(response.data)

\* Mutant: a request that ends in an error gives its quota unit back.
resume_v120_RefundsQuota(f, response) ==
    IF ~response.ok
    THEN [handleErrorResponse(response) EXCEPT !.count = requestCount - 1]
    ELSE IF response.body = "garbage"
    THEN [Throw("syntax") EXCEPT !.count = requestCount - 1]
    ELSE IF f.useCache
    THEN [Return(response.data) EXCEPT
             !.key = f.action \o sColon \o JSONstringify(params),
             !.cache = setCached(f.action \o sColon \o JSONstringify(params), response.data)]
    ELSE Return(response.data)

\* makeRequest of v1.2.0 from its fetch on.
resume_v120(f, response) ==
    IF ~response.ok THEN handleErrorResponse(response)
    ELSE IF response.body = "garbage" THEN Throw("syntax")
    ELSE IF f.useCache
    THEN [Return(response.data) EXCEPT
             !.key = f.action \o sColon \o JSONstringify(params),
             !.cache = setCached(f.action \o sColon \o JSONstringify(params), response.data)]
    ELSE Return(response.data)

\* makeRequest of v1.3.0 from its fetch on.
resume_v130(f, response) ==
    IF ~response.ok THEN handleErrorResponse(response)
    ELSE IF response.body = "garbage" THEN Throw("syntax")
    ELSE IF f.useCache
    THEN [Return(response.data) EXCEPT
             !.key = JSONstringify(params),
             !.cache = setCached(JSONstringify(params), response.data)]
    ELSE Return(response.data)

\* makePostRequest of v1.2.0 and v1.3.0 from its fetch on.
resumePost(f, response) ==
    IF ~response.ok THEN handleErrorResponse(response)
    ELSE IF response.body = "garbage" THEN Throw("syntax")
    ELSE Return(response.data)

\* makeRequest of the bundled 1.3.0 client from its fetch on.
resume_p001(f, response) ==
    IF ~response.ok
    THEN IF response.body = "garbage" THEN Throw("syntax") ELSE parseError(response)
    ELSE IF response.body = "garbage" THEN Throw("syntax")
    ELSE IF f.useCache
    THEN [Return(response.data) EXCEPT
             !.key = JSONstringify(params),
             !.cache = setCached(JSONstringify(params), response.data)]
    ELSE Return(response.data)

\* makeProtectedRequest and makePostRequest of v3.8.1 from their fetch on.
resume_v381(f, response) ==
    IF ~response.ok THEN [Throw("http") EXCEPT !.error.status = response.status]
    ELSE IF response.body = "garbage" THEN Throw("syntax")
    ELSE Return(response.data)

resume(f, response) ==
    CASE f.variant = "v100" -> resume_v100(f, response)
      [] f.variant = "v381" -> resume_v381(f, response)
      [] f.variant = "p001" -> resume_p001(f, response)
      [] f.method = "makePostRequest" -> resumePost(f, response)
      [] f.variant = "v120" -> resume_v120(f, response)
      [] f.variant = "v130" -> resume_v130(f, response)

\* The state a request step found, for the claims that compare before and
\* after.
Snapshot ==
    [params |-> params, count |-> requestCount, window |-> requestWindow,
     cache |-> cache, used |-> usedNonces, token |-> csrfToken, expiry |-> csrfExpiry,
     configured |-> ~NotConfigured, enableCSRF |-> enableCSRF, lastPost |-> lastPost]

NoPost == [token |-> <<>>, expiry |-> NoTime]

NoResponse == [ok |-> TRUE, status |-> 0, body |-> "none", data |-> NoData, code |-> ""]

NoReqCall ==
    [op |-> "none", method |-> "none", outcome |-> "none", error |-> NoError,
     value |-> NoData, flight |-> NoFlight, response |-> NoResponse,
     useCache |-> FALSE, key |-> NoKey,
     pre |-> [params |-> <<>>, count |-> 0, window |-> 0, cache |-> <<>>, used |-> <<>>,
              token |-> NoToken, expiry |-> NoTime, configured |-> TRUE,
              enableCSRF |-> TRUE, lastPost |-> NoPost]]

\* The state a request step r of the named function leaves.
Step(op, method, r, response) ==
    /\ requestCount' = r.count
    /\ requestWindow' = r.window
    /\ admitted' = (IF r.window # requestWindow THEN 0 ELSE admitted)
                   + (IF r.admits THEN 1 ELSE 0)
    /\ cache' = r.cache
    /\ usedNonces' = r.used
    /\ issued' = (IF op = "call" /\ r.flight.nonce # NoNonce
                  THEN Append(issued, r.flight.nonce)
                  ELSE issued)
    /\ csrfToken' = r.token
    /\ csrfExpiry' = r.expiry
    /\ clearedExpiry' = (IF r.token # csrfToken THEN NoTime ELSE clearedExpiry)
    /\ params' = r.params
    /\ reqRet' = [NoReqCall EXCEPT !.op = op, !.method = method, !.outcome = r.outcome,
                     !.error = r.error, !.value = r.value,
                     !.useCache = r.useCache, !.key = r.key,
                     !.flight = [r.flight EXCEPT !.variant = variant, !.method = method],
                     !.response = response, !.pre = Snapshot]
    /\ lastPost' = (IF r.outcome = "sent" /\ r.flight.csrf # <<>>
                    THEN [token |-> r.flight.csrf,
                          expiry |-> IF variant = "v381" THEN now + csrfLifetime
                                     ELSE r.expiry]
                    ELSE lastPost)
    /\ rlRet' = NoRateCall
    /\ cacheRet' = NoCacheCall
    /\ nonceRet' = NoNonceCall
    /\ csrfRet' = NoCsrfCall
    /\ sigRet' = NoSigCall
    /\ UNCHANGED <<exceptReq, now, rateLimitEnabled, maxRequests, variant, enableCache, cacheTimeout,
                   lastSet, expired, enableNonce, enableCSRF, config>>

\* A call of a request function: it runs to its fetch, its return or its throw.
Call(method, r) ==
    LET suspended == [r EXCEPT !.flight.key = r.key,
                               !.flight.cacheTimeout = IF r.outcome = "sent" THEN cacheTimeout
                                                       ELSE 0]
    IN  /\ Len(inflight) < MaxInflight
        /\ inflight' = (IF r.outcome = "sent"
                        THEN Append(inflight, [suspended.flight EXCEPT !.variant = variant,
                                                                       !.method = method])
                        ELSE inflight)
        /\ Step("call", method, suspended, NoResponse)

CacheTTLs == {NoArg, MaxTTL}

\* What the generator draws inside a request: the least nonce not yet
\* tracked, or the oldest tracked one over and over.
RequestDraws ==
    {n \in Nonces : usedNonces # <<>> /\ n = usedNonces[1]}
    \cup {n \in Nonces \ Range(usedNonces) :
             \A m \in Nonces \ Range(usedNonces) : n <= m}

MakeRequest_v100 ==
    /\ variant = "v100"
    /\ \E useCache \in BOOLEAN, ttl \in CacheTTLs :
           Call("makeRequest", makeRequest_v100(useCache, ttl))

MakeRequest_v120 ==
    /\ variant = "v120"
    /\ \E useCache \in BOOLEAN, c \in RequestDraws :
           Call("makeRequest", makeRequest_v120(sList, useCache, Draws(1, c, c)))

MakePostRequest_v120 ==
    /\ variant = "v120"
    /\ \E c \in RequestDraws, rand \in Rands :
           Call("makePostRequest", makePostRequest_v120(sList, Draws(1, c, c), rand))

MakeRequest_v130 ==
    /\ variant = "v130"
    /\ \E useCache \in BOOLEAN : Call("makeRequest", makeRequest_v130(useCache))

MakePostRequest_v130 ==
    /\ variant = "v130"
    /\ \E rand \in Rands : Call("makePostRequest", makePostRequest_v130(rand))

MakeRequest_p001 ==
    /\ variant = "p001"
    /\ \E useCache \in BOOLEAN : Call("makeRequest", makeRequest_p001(useCache))

MakeProtectedRequest_v381 ==
    /\ variant = "v381"
    /\ Call("makeProtectedRequest", makeProtectedRequest_v381)

MakePostRequest_v381 ==
    /\ variant = "v381"
    /\ Call("makePostRequest", makePostRequest_v381)

\* The transport answers a request in flight, and its function runs on to its
\* return or throw.
Respond ==
    \E i \in 1..Len(inflight), response \in Responses :
        /\ inflight' = SubSeq(inflight, 1, i - 1) \o SubSeq(inflight, i + 1, Len(inflight))
        /\ Step("response", inflight[i].method,
                [resume(inflight[i], response) EXCEPT !.flight = inflight[i],
                                                      !.useCache = inflight[i].useCache],
                response)

\* The network fails: fetch rejects, and the rejection leaves the request
\* function as it is (v1.0.0 and v3.8.1 catch it and throw it again).
Fail ==
    \E i \in 1..Len(inflight) :
        /\ inflight' = SubSeq(inflight, 1, i - 1) \o SubSeq(inflight, i + 1, Len(inflight))
        /\ Step("failure", inflight[i].method,
                [Throw("network") EXCEPT !.flight = inflight[i],
                                         !.useCache = inflight[i].useCache],
                NoResponse)

\* The variants whose request functions arm setTimeout(() => controller.abort())
\* before their fetch; the others call fetch with no signal.
TimedVariants == {"v100", "v381"}

\* The timer of a request in flight fires: fetch rejects with AbortError and
\* the function throws its timeout error.
Timeout ==
    \E i \in 1..Len(inflight) :
        /\ inflight[i].variant \in TimedVariants
        /\ inflight' = SubSeq(inflight, 1, i - 1) \o SubSeq(inflight, i + 1, Len(inflight))
        /\ Step("timeout", inflight[i].method,
                [Throw("timeout") EXCEPT !.flight = inflight[i],
                                         !.useCache = inflight[i].useCache],
                NoResponse)

\* Date.now() moves by more than a rate-limit window at a time, forth or back.
WindowTick ==
    /\ \E t \in 0..MaxTime : t % (oneHour + 1) = 0 /\ t # now /\ now' = t
    /\ reqRet' = NoReqCall
    /\ UNCHANGED <<exceptReq, rateVars, cacheVars, nonceVars, csrfVars, sigVars, config, inflight,
                   lastPost>>

RequestTick ==
    /\ ClockReads(ReqMaxTime)
    /\ reqRet' = NoReqCall
    /\ UNCHANGED <<exceptReq, rateVars, cacheVars, nonceVars, csrfVars, sigVars, config, inflight,
                   lastPost>>

(***************************************************************************)
(* Checksum validation (v1.2.0, v3.8.1).                                   *)
(***************************************************************************)
kData     == <<100, 97, 116, 97>>                               \* "data"
kChecksum == <<99, 104, 101, 99, 107, 115, 117, 109>>           \* "checksum"
kChecksumAlgorithm ==                                           \* "checksumAlgorithm"
    kChecksum \o <<65, 108, 103, 111, 114, 105, 116, 104, 109>>

\* CryptoJS.SHA256(message).toString(): a hash without collisions, written as
\* '$' message in place of the hex digest.
SHA256(message) == <<36>> \o message

\* validateChecksum(data, checksumField = 'checksum') of v1.2.0.
validateChecksum_v120(data) ==
    IF ~ToBoolean(ObjectGet(data, kChecksum)) THEN FALSE ELSE TRUE

\* validateChecksum(data) of v3.8.1.
validateChecksum_v381(data) ==
    IF ~ToBoolean(ObjectGet(data, kChecksum)) \/ ~ToBoolean(ObjectGet(data, kData))
    THEN FALSE
    ELSE JsString(SHA256(JSONvalue(ObjectGet(data, kData)))) = ObjectGet(data, kChecksum)

\* The response objects a server may send: any payload or none, and with it
\* no checksum, an empty one, the text "x", or the hash of some payload.
Payloads == SigValues

Checksums ==
    {JsString(<<>>), JsString(<<120>>)}
    \cup {JsString(SHA256(JSONvalue(v))) : v \in Payloads}

ReceivedObjects ==
    {<<>>}
    \cup {<<[k |-> kData, v |-> d]>> : d \in Payloads}
    \cup {<<[k |-> kChecksum, v |-> c]>> : c \in Checksums}
    \cup {<<[k |-> kData, v |-> d], [k |-> kChecksum, v |-> c]>> :
             d \in Payloads, c \in Checksums}

NoSumCall == [op |-> "none", variant |-> "v120", value |-> FALSE]

\* A response object arrives.
Receive ==
    /\ received' \in ReceivedObjects \ {received}
    /\ sumRet' = NoSumCall
    /\ UNCHANGED <<now, exceptSum>>

ValidateChecksum_v120 ==
    /\ sumRet' = [NoSumCall EXCEPT !.op = "validateChecksum", !.variant = "v120",
                     !.value = validateChecksum_v120(received)]
    /\ UNCHANGED <<now, received, exceptSum>>

ValidateChecksum_v381 ==
    /\ sumRet' = [NoSumCall EXCEPT !.op = "validateChecksum", !.variant = "v381",
                     !.value = validateChecksum_v381(received)]
    /\ UNCHANGED <<now, received, exceptSum>>

(***************************************************************************)
(* configure(options) of v1.0.0 and v3.8.1.                                *)
(***************************************************************************)
\* An option the caller left out of the options object.
Absent == <<0>>

sHttps     == <<104, 116, 116, 112, 115, 58, 47, 47>>       \* "https://"
sHttpsUrl  == sHttps \o <<117>>                               \* "https://u"
sHttpUrl   == <<104, 116, 116, 112, 58, 47, 47, 117>>         \* "http://u"

\* url.startsWith(prefix)
StartsWith(s, prefix) ==
    Len(s) >= Len(prefix) /\ SubSeq(s, 1, Len(prefix)) = prefix

\* !options.x for a string option: left out or empty.
Missing(x) == x = Absent \/ x = <<>>

\* The options objects callers pass: given is false for configure() and
\* configure(null); enforceHttps is left out, true or false.
Options ==
    [given : BOOLEAN,
     scriptUrl : {Absent, <<>>, sHttpsUrl, sHttpUrl},
     apiToken : {Absent, <<84>>, <<85>>},
     hmacSecret : {Absent, <<>>, <<83>>},
     enforceHttps : {"absent", "true", "false"}]

\* Object.assign(config, options), for the settings the model keeps.
assign(options) ==
    [config |-> [config EXCEPT
                    !.scriptUrl = IF options.scriptUrl = Absent THEN @ ELSE options.scriptUrl,
                    !.apiToken = IF options.apiToken = Absent THEN @ ELSE options.apiToken,
                    !.hmacSecret = IF options.hmacSecret = Absent THEN @
                                   ELSE options.hmacSecret],
     enforceHttps |-> IF options.enforceHttps = "absent" THEN enforceHttps
                      ELSE options.enforceHttps = "true",
     threw |-> FALSE]

Refused == [config |-> config, enforceHttps |-> enforceHttps, threw |-> TRUE]

\* Mutant: the options are merged before they are validated.
configure_v100_MergesFirst(options) ==
    IF ~options.given THEN Refused
    ELSE IF Missing(options.scriptUrl) THEN Refused
    ELSE IF Missing(options.apiToken) THEN [assign(options) EXCEPT !.threw = TRUE]
    ELSE IF Missing(options.hmacSecret) THEN [assign(options) EXCEPT !.threw = TRUE]
    ELSE IF options.enforceHttps # "false" /\ ~StartsWith(options.scriptUrl, sHttps)
    THEN [assign(options) EXCEPT !.threw = TRUE]
    ELSE assign(options)

\* configure(options) of v1.0.0.
configure_v100(options) ==
    IF ~options.given THEN Refused
    ELSE IF Missing(options.scriptUrl) THEN Refused
    ELSE IF Missing(options.apiToken) THEN Refused
    ELSE IF Missing(options.hmacSecret) THEN Refused
    ELSE IF options.enforceHttps # "false" /\ ~StartsWith(options.scriptUrl, sHttps)
    THEN Refused
    ELSE assign(options)

\* configure(options) of v3.8.1: only scriptUrl is required.
configure_v381(options) ==
    IF ~options.given THEN Refused
    ELSE IF Missing(options.scriptUrl) THEN Refused
    ELSE IF options.enforceHttps # "false" /\ ~StartsWith(options.scriptUrl, sHttps)
    THEN Refused
    ELSE assign(options)

NoCfgCall ==
    [op |-> "none", threw |-> FALSE,
     options |-> [given |-> FALSE, scriptUrl |-> Absent, apiToken |-> Absent,
                  hmacSecret |-> Absent, enforceHttps |-> "absent"],
     pre |-> [config |-> NotYetConfigured, enforceHttps |-> TRUE]]

Configure(r, options) ==
    /\ config' = r.config
    /\ enforceHttps' = r.enforceHttps
    /\ cfgRet' = [NoCfgCall EXCEPT !.op = "configure", !.threw = r.threw,
                     !.options = options,
                     !.pre = [config |-> config, enforceHttps |-> enforceHttps]]
    /\ UNCHANGED <<now, rateVars, cacheVars, nonceVars, csrfVars, sigVars, sumVars,
                   sideVars, inflight, reqRet, lastPost>>

Configure_v100 ==
    /\ variant = "v100"
    /\ \E options \in Options : Configure(configure_v100(options), options)

Configure_v381 ==
    /\ variant = "v381"
    /\ \E options \in Options : Configure(configure_v381(options), options)

(***************************************************************************)
(* The state after the script has loaded, and the specifications.          *)
(***************************************************************************)
InitRateLimiter ==
    /\ rateLimitEnabled = TRUE
    /\ requestCount = 0
    /\ requestWindow = now
    /\ admitted = 0
    /\ rlRet = NoRateCall

InitCache ==
    /\ enableCache = TRUE
    /\ cacheTimeout = 1
    /\ cache = <<>>
    /\ lastSet = [k \in Keys |-> NoData]
    /\ expired = [k \in Keys |-> NoTime]
    /\ cacheRet = NoCacheCall

InitNonces ==
    /\ enableNonce = TRUE
    /\ usedNonces = <<>>
    /\ issued = <<>>
    /\ nonceRet = NoNonceCall

InitCsrf ==
    /\ enableCSRF = TRUE
    /\ csrfToken = NoToken
    /\ csrfExpiry = NoTime
    /\ clearedExpiry = NoTime
    /\ csrfRet = NoCsrfCall

InitSigner ==
    /\ params = <<>>
    /\ sigRet = NoSigCall

(***************************************************************************)
(* EcomSidebar, the sidebar widget that precedes the 1.3.0 client in       *)
(* part_001.  The page is modelled by what the filter code reads and       *)
(* writes: whether the sidebar's markup is in the document, the inputs of  *)
(* each filter container (value, checked, whether init attached a change   *)
(* listener to the element), the text of #ecomFilterCount and the display  *)
(* of the clear button.  Items are their ids; names and counts play no     *)
(* part.  Dark mode, swipe and navigation handlers are left out: they      *)
(* touch neither the filters nor the lifecycle flag.                       *)
(***************************************************************************)
NumIds      == 2    \* ids of a data list (5 in defaultData)
NumSorts    == 1    \* radios of the sort group (4 in the markup)
MaxSelected == 2    \* most selected categories and brands explored

NoId == 0           \* null

defaultList == [i \in 1..NumIds |-> i]

defaultData == [categories |-> defaultList, brands |-> defaultList,
                priceRanges |-> defaultList]

\* The lists a caller passes: one item, the default items reversed.
Lists == {<<1>>, [i \in 1..NumIds |-> NumIds + 1 - i]}

\* The argument of init and of setData: each list given or left out.
SidebarData ==
    [categories : Lists \cup {Absent}, brands : {<<1>>, Absent},
     priceRanges : {<<1>>, Absent}]

NoFilters == [categories |-> <<>>, brands |-> <<>>, priceRange |-> NoId]

Input(v) == [value |-> v, checked |-> FALSE, handler |-> FALSE]

\* A page without the sidebar.
NoSidebar ==
    [sidebar |-> FALSE, categoriesItems |-> <<>>, brandsItems |-> <<>>,
     priceItems |-> <<>>, sortByItems |-> <<>>, filterCount |-> 0, clearBtn |-> "none"]

\* The markup init inserts: empty item containers, the sort radios, a count
\* of 0 and a hidden clear button.
sidebarHTML ==
    [NoSidebar EXCEPT !.sidebar = TRUE,
                      !.sortByItems = [i \in 1..NumSorts |-> Input(i)]]

\* The closure's state and the page, as one record.
Widget ==
    [initialized |-> initialized, categories |-> categories, brands |-> brands,
     priceRanges |-> priceRanges, selectedFilters |-> selectedFilters,
     document |-> document]

\* items.map(item => `<label>...<input ...>`).join(''): fresh inputs.
ItemsHTML(items) == [i \in 1..Len(items) |-> Input(items[i])]

renderCategories(w) ==
    IF ~w.document.sidebar \/ w.categories = <<>> THEN w
    ELSE [w EXCEPT !.document.categoriesItems = ItemsHTML(w.categories)]

renderBrands(w) ==
    IF ~w.document.sidebar \/ w.brands = <<>> THEN w
    ELSE [w EXCEPT !.document.brandsItems = ItemsHTML(w.brands)]

renderPriceRanges(w) ==
    IF ~w.document.sidebar \/ w.priceRanges = <<>> THEN w
    ELSE [w EXCEPT !.document.priceItems = ItemsHTML(w.priceRanges)]

updateFilterCount(w) ==
    LET count == Len(w.selectedFilters.categories) + Len(w.selectedFilters.brands)
                 + (IF w.selectedFilters.priceRange # NoId THEN 1 ELSE 0)
    IN  IF ~w.document.sidebar THEN w
        ELSE [w EXCEPT !.document.filterCount = count,
                       !.document.clearBtn = IF count > 0 THEN "block" ELSE "none"]

Listening(inputs) == [i \in 1..Len(inputs) |-> [inputs[i] EXCEPT !.handler = TRUE]]

Unchecked(inputs) == [i \in 1..Len(inputs) |-> [inputs[i] EXCEPT !.checked = FALSE]]

\* attachEventListeners(), for the inputs matching '.ecom-filter-item input'.
attachEventListeners(w) ==
    [w EXCEPT !.document.categoriesItems = Listening(@),
              !.document.brandsItems = Listening(@),
              !.document.priceItems = Listening(@),
              !.document.sortByItems = Listening(@)]

\* The change listener of a filter input.
changeHandler(w, type, value, checked) ==
    LET sel == w.selectedFilters
        next ==
            CASE type = "category" ->
                     [sel EXCEPT !.categories =
                         IF checked THEN Append(@, value)
                         ELSE SelectSeq(@, LAMBDA id : id # value)]
              [] type = "brand" ->
                     [sel EXCEPT !.brands =
                         IF checked THEN Append(@, value)
                         ELSE SelectSeq(@, LAMBDA id : id # value)]
              [] type = "price" ->
                     [sel EXCEPT !.priceRange = IF checked THEN value ELSE NoId]
              [] OTHER -> sel
    IN  updateFilterCount([w EXCEPT !.selectedFilters = next])

clearAllFilters(w) ==
    updateFilterCount(
        [w EXCEPT !.selectedFilters = NoFilters,
                  !.document.categoriesItems = Unchecked(@),
                  !.document.brandsItems = Unchecked(@),
                  !.document.priceItems = Unchecked(@),
                  !.document.sortByItems = Unchecked(@)])

Or(given, default) == IF given # Absent THEN given ELSE default

init(w, options) ==
    LET inserted == [w EXCEPT !.document = sidebarHTML,
                              !.categories = Or(options.categories, defaultData.categories),
                              !.brands = Or(options.brands, defaultData.brands),
                              !.priceRanges = Or(options.priceRanges, defaultData.priceRanges)]
        rendered == renderPriceRanges(renderBrands(renderCategories(inserted)))
    IN  IF w.initialized THEN w
        ELSE [updateFilterCount(attachEventListeners(rendered))
                  EXCEPT !.initialized = TRUE]

\* destroy(): the listeners go with the elements that carried them.
destroy(w) == [w EXCEPT !.document = NoSidebar, !.initialized = FALSE]

setData(w, data) ==
    LET c == IF data.categories # Absent
             THEN renderCategories([w EXCEPT !.categories = data.categories]) ELSE w
        b == IF data.brands # Absent
             THEN renderBrands([c EXCEPT !.brands = data.brands]) ELSE c
    IN  IF data.priceRanges # Absent
        THEN renderPriceRanges([b EXCEPT !.priceRanges = data.priceRanges]) ELSE b

\* The script as loaded: closure state as declared, page without the sidebar.
Loaded ==
    [initialized |-> FALSE, categories |-> <<>>, brands |-> <<>>, priceRanges |-> <<>>,
     selectedFilters |-> NoFilters, document |-> NoSidebar]

NoOptions == [categories |-> Absent, brands |-> Absent, priceRanges |-> Absent]

\* The last call: what it was, whether it found the widget initialized and
\* whether it left the closure's state and the page as it found them.
NoSideCall == [op |-> "none", initialized |-> FALSE, unchanged |-> TRUE]

SidebarStep(op, w) ==
    /\ Len(w.selectedFilters.categories) + Len(w.selectedFilters.brands) <= MaxSelected
    /\ initialized' = w.initialized
    /\ categories' = w.categories
    /\ brands' = w.brands
    /\ priceRanges' = w.priceRanges
    /\ selectedFilters' = w.selectedFilters
    /\ document' = w.document
    /\ sideRet' = [op |-> (IF op = "init" THEN op ELSE "other"),
                    initialized |-> initialized, unchanged |-> (w = Widget)]
    /\ UNCHANGED <<now, rateVars, cacheVars, nonceVars, csrfVars, sigVars, reqVars,
                   sumVars, cfgVars>>

SidebarInit == \E options \in SidebarData : SidebarStep("init", init(Widget, options))

SidebarDestroy == SidebarStep("destroy", destroy(Widget))

SetData == \E data \in SidebarData : SidebarStep("setData", setData(Widget, data))

ClearAllFilters == SidebarStep("clearAllFilters", clearAllFilters(Widget))

\* The user clicks a checkbox: it flips, then its change listener, if the
\* element has one, runs.
Clicked(w, inputs, type, i) ==
    LET flipped == [inputs EXCEPT ![i].checked = ~@]
        shown == IF type = "category"
                 THEN [w EXCEPT !.document.categoriesItems = flipped]
                 ELSE [w EXCEPT !.document.brandsItems = flipped]
    IN  IF inputs[i].handler
        THEN changeHandler(shown, type, inputs[i].value, flipped[i].checked)
        ELSE shown

\* The user picks an unchecked radio: it becomes the one checked radio of its
\* group, then its change listener, if the element has one, runs.
Picked(w, inputs, type, i) ==
    LET moved == [j \in 1..Len(inputs) |-> [inputs[j] EXCEPT !.checked = (j = i)]]
        shown == IF type = "price"
                 THEN [w EXCEPT !.document.priceItems = moved]
                 ELSE [w EXCEPT !.document.sortByItems = moved]
    IN  IF inputs[i].handler
        THEN changeHandler(shown, type, inputs[i].value, TRUE)
        ELSE shown

ToggleCategory ==
    \E i \in 1..Len(document.categoriesItems) :
        SidebarStep("change", Clicked(Widget, document.categoriesItems, "category", i))

ToggleBrand ==
    \E i \in 1..Len(document.brandsItems) :
        SidebarStep("change", Clicked(Widget, document.brandsItems, "brand", i))

PickPrice ==
    \E i \in 1..Len(document.priceItems) :
        /\ ~document.priceItems[i].checked
        /\ SidebarStep("change", Picked(Widget, document.priceItems, "price", i))

PickSort ==
    \E i \in 1..Len(document.sortByItems) :
        /\ ~document.sortByItems[i].checked
        /\ SidebarStep("change", Picked(Widget, document.sortByItems, "sortby", i))

\* The script ends by calling EcomSidebar.init() with no options.
InitSidebar ==
    LET w == init(Loaded, NoOptions)
    IN  /\ initialized = w.initialized
        /\ categories = w.categories
        /\ brands = w.brands
        /\ priceRanges = w.priceRanges
        /\ selectedFilters = w.selectedFilters
        /\ document = w.document
        /\ sideRet = NoSideCall

InitChecksum ==
    /\ received = <<>>
    /\ sumRet = NoSumCall

InitConfigure ==
    /\ enforceHttps = TRUE
    /\ cfgRet = NoCfgCall

InitRequests ==
    /\ config = Configured
    /\ inflight = <<>>
    /\ reqRet = NoReqCall
    /\ lastPost = NoPost

\* The rate limiter of any variant, with the quota configured once.
InitRate ==
    /\ now = 0
    /\ maxRequests \in 1..MaxQuota
    /\ variant = "v120"
    /\ InitRateLimiter /\ InitCache /\ InitNonces /\ InitCsrf /\ InitSigner
    /\ InitRequests /\ InitChecksum /\ InitConfigure /\ InitSidebar

NextRate ==
    \/ CheckRateLimit
    \/ ResetRateLimit
    \/ GetRateLimitStatus
    \/ ConfigureRateLimit
    \/ RateTick

SpecRate == InitRate /\ [][NextRate]_vars

\* The same, and configure() may change the quota at any time.
NextRateCfg ==
    \/ CheckRateLimit
    \/ ResetRateLimit
    \/ GetRateLimitStatus
    \/ ConfigureRateLimit
    \/ ConfigureQuota
    \/ RateTick

SpecRateCfg == InitRate /\ [][NextRateCfg]_vars

\* The response cache of v1.0.0 and of v1.2.0.
InitCacheSpec ==
    /\ now = 0
    /\ maxRequests = MaxQuota
    /\ variant \in {"v100", "v120"}
    /\ InitRateLimiter /\ InitCache /\ InitNonces /\ InitCsrf /\ InitSigner
    /\ InitRequests /\ InitChecksum /\ InitConfigure /\ InitSidebar

NextCache ==
    \/ SetCached
    \/ GetCached
    \/ ClearCache
    \/ ConfigureEnableCache
    \/ ConfigureCacheTimeout
    \/ CacheTick

SpecCache == InitCacheSpec /\ [][NextCache]_vars

\* The nonce tracker of v1.2.0 and v1.3.0.
InitNonceSpec ==
    /\ now = 0
    /\ maxRequests = MaxQuota
    /\ variant = "v120"
    /\ InitRateLimiter /\ InitCache /\ InitNonces /\ InitCsrf /\ InitSigner
    /\ InitRequests /\ InitChecksum /\ InitConfigure /\ InitSidebar

\* The response cache of v1.2.0 (the code of part_001's cache is the same)
\* under its configured timeout: stores, lookups, clears and the clock.
NextEviction ==
    \/ SetCached
    \/ GetCached
    \/ ClearCache
    \/ CacheTick

SpecEviction == InitNonceSpec /\ [][NextEviction]_vars

NextNonce ==
    \/ GenerateNonce
    \/ ClearNonces
    \/ ConfigureNonce

SpecNonce == InitNonceSpec /\ [][NextNonce]_vars

\* The CSRF token manager of v1.2.0 and v1.3.0.
NextCsrf ==
    \/ GetCSRFToken
    \/ ClearCSRFToken
    \/ ConfigureCSRF
    \/ CsrfTick

SpecCsrf == InitNonceSpec /\ [][NextCsrf]_vars

\* The signers of v1.0.0, v1.3.0 and v3.8.1 on the objects a caller builds.
NextSigner ==
    \/ GenerateSignature
    \/ SetParam
    \/ DeleteParam

SpecSigner == InitNonceSpec /\ [][NextSigner]_vars

\* The request functions of the five variants, each with the configuration
\* the page gave it and the parameter object the caller keeps passing.
Variants == {"v100", "v120", "v130", "v381", "p001"}

RequestParams == {<<>>, <<[k |-> kAction, v |-> JsString(sList)]>>}

InitRequestSpec ==
    /\ now = 0
    /\ maxRequests = ReqQuota
    /\ variant \in Variants
    /\ InitRateLimiter /\ InitCache /\ InitNonces /\ InitCsrf
    /\ params \in RequestParams
    /\ sigRet = NoSigCall
    /\ config \in Configs(variant)
    /\ inflight = <<>>
    /\ reqRet = NoReqCall
    /\ lastPost = NoPost
    /\ InitChecksum /\ InitConfigure /\ InitSidebar

NextRequest ==
    \/ MakeRequest_v100
    \/ MakeRequest_v120
    \/ MakePostRequest_v120
    \/ MakeRequest_v130
    \/ MakePostRequest_v130
    \/ MakeRequest_p001
    \/ MakeProtectedRequest_v381
    \/ MakePostRequest_v381
    \/ Respond
    \/ Timeout
    \/ RequestTick

SpecRequest == InitRequestSpec /\ [][NextRequest]_vars

\* Reads and writes of v1.2.0 and v1.3.0 within one clock reading, up to the
\* exhaustion of the quota and beyond.
InitQuotaSpec ==
    /\ InitRequestSpec
    /\ variant \in {"v120", "v130"}
    /\ config = Configured
    /\ params = <<>>

NextQuota ==
    \/ MakeRequest_v120
    \/ MakePostRequest_v120
    \/ MakeRequest_v130
    \/ MakePostRequest_v130
    \/ Respond

SpecQuota == InitQuotaSpec /\ [][NextQuota]_vars

\* Reads of v1.2.0 and v1.3.0 by a caller that awaits each request before the
\* next, as the clock moves and cache entries expire.
NextLookup ==
    \/ (inflight = <<>> /\ MakeRequest_v120)
    \/ (inflight = <<>> /\ MakeRequest_v130)
    \/ Respond
    \/ RequestTick

SpecLookup == InitQuotaSpec /\ [][NextLookup]_vars

\* The same caller on v1.0.0 and v1.2.0, which count a request before they
\* look for it in the cache.
InitCountedSpec ==
    /\ InitRequestSpec
    /\ variant \in {"v100", "v120"}
    /\ config = Configured
    /\ params = <<>>

NextCounted ==
    \/ (inflight = <<>> /\ MakeRequest_v100)
    \/ (inflight = <<>> /\ MakeRequest_v120)
    \/ Respond
    \/ RequestTick

SpecCounted == InitCountedSpec /\ [][NextCounted]_vars

\* Reads of v1.2.0 that overlap, over more than one rate-limit window.
InitOverlapSpec ==
    /\ InitRequestSpec
    /\ variant = "v120"
    /\ config = Configured
    /\ params = <<>>

NextOverlap ==
    \/ MakeRequest_v120
    \/ Respond
    \/ WindowTick

SpecOverlap == InitOverlapSpec /\ [][NextOverlap]_vars

\* Reads of v1.2.0 with configure({cacheTimeout}) called at any point, also
\* while a request is suspended at its fetch.
NextReconfigure ==
    \/ MakeRequest_v120
    \/ Respond
    \/ ConfigureCacheTimeout

SpecReconfigure == InitOverlapSpec /\ [][NextReconfigure]_vars

\* Reads of v1.0.0, v1.2.0 and v1.3.0 that are answered, time out or fail.
InitFailingSpec ==
    /\ InitRequestSpec
    /\ variant \in {"v100", "v120", "v130"}
    /\ config = Configured
    /\ params = <<>>

NextFailing ==
    \/ MakeRequest_v100
    \/ MakeRequest_v120
    \/ MakeRequest_v130
    \/ Respond
    \/ Timeout
    \/ Fail

SpecFailing == InitFailingSpec /\ [][NextFailing]_vars

\* Reads of v1.2.0 with the same action and parameters that overlap, within
\* one clock reading.
NextRace ==
    \/ MakeRequest_v120
    \/ Respond

SpecRace == InitOverlapSpec /\ [][NextRace]_vars

\* configure of v1.0.0 and v3.8.1, from the state of the loaded script.
InitConfigureSpec ==
    /\ InitRequestSpec
    /\ variant \in {"v100", "v381"}
    /\ config = NotYetConfigured
    /\ params = <<>>

NextConfigure ==
    \/ Configure_v100
    \/ Configure_v381

SpecConfigure == InitConfigureSpec /\ [][NextConfigure]_vars

\* The sidebar widget: its API and the user's clicks on the filter inputs.
NextSidebar ==
    \/ SidebarInit
    \/ SidebarDestroy
    \/ SetData
    \/ ClearAllFilters
    \/ ToggleCategory
    \/ ToggleBrand
    \/ PickPrice
    \/ PickSort

SpecSidebar == InitNonceSpec /\ [][NextSidebar]_vars

\* Requests under the scheduling the code can count on: an armed timer fires
\* unless the answer comes first.  Nothing makes the transport answer.
NextPending ==
    \/ MakeRequest_v100
    \/ MakeRequest_v120
    \/ MakeRequest_v130
    \/ MakeRequest_p001
    \/ MakeProtectedRequest_v381
    \/ Respond
    \/ Timeout

SpecPending == InitRequestSpec /\ [][NextPending]_vars /\ WF_vars(Timeout)

\* validateChecksum of v1.2.0 and v3.8.1 on the objects a server sends.
NextChecksum ==
    \/ Receive
    \/ ValidateChecksum_v120
    \/ ValidateChecksum_v381

SpecChecksum == InitNonceSpec /\ [][NextChecksum]_vars

\* Nonce tracker and CSRF token manager side by side, each with its switch.
AuthMaxIssued == 1   \* nonces issued in this specification
AuthMaxTime   == 1   \* the clock reads 0..AuthMaxTime in this specification

NextAuth ==
    \/ GenerateNonce /\ (enableNonce => Len(issued) < AuthMaxIssued)
    \/ ConfigureNonce
    \/ GetCSRFToken
    \/ ConfigureCSRF
    \/ CsrfTick /\ now' <= AuthMaxTime

SpecAuth == InitNonceSpec /\ [][NextAuth]_vars

(***************************************************************************)
(* Rate limiter: claims.                                                   *)
(***************************************************************************)

C2_CountInRange ==
    (rlRet.op = "checkRateLimit" /\ rlRet.enabled /\ rlRet.ok) =>
        (requestCount >= 1 /\ requestCount <= maxRequests)

\* C2 witness: the call that takes the last unit of a quota of at least 2.
C2_Witness ==
    /\ rlRet.op = "checkRateLimit" /\ rlRet.enabled /\ rlRet.ok
    /\ requestCount = maxRequests /\ maxRequests >= 2

\* C3: a checkRateLimit call that fails does not increment requestCount, and
\* the reset time it reports is windowStart + 1 hour, not before the time of
\* the call.
C3_RejectionReport ==
    (rlRet.op = "checkRateLimit" /\ ~rlRet.ok) =>
        /\ requestCount = rlRet.preCount
        /\ rlRet.resetTime = requestWindow + oneHour
        /\ rlRet.resetTime >= now

\* C3 witness: a call rejected at the very instant the window ends.
C3_Witness ==
    /\ rlRet.op = "checkRateLimit" /\ ~rlRet.ok
    /\ rlRet.resetTime = now

\* C4: with rate limiting disabled checkRateLimit succeeds and leaves
\* requestCount and requestWindow as they were.
C4_DisabledIsNoOp ==
    (rlRet.op = "checkRateLimit" /\ ~rlRet.enabled) =>
        /\ rlRet.ok
        /\ requestCount = rlRet.preCount
        /\ requestWindow = rlRet.preWindow

\* C4 witness: a disabled call with the quota used up and the window expired.
C4_Witness ==
    /\ rlRet.op = "checkRateLimit" /\ ~rlRet.enabled /\ rlRet.ok
    /\ requestCount = maxRequests
    /\ now - requestWindow > oneHour

\* C5: getRateLimitStatus changes neither requestCount nor requestWindow and
\* reports currentRequests = requestCount, remaining = max(0, maxRequests -
\* requestCount), resetsAt = requestWindow + 1 hour.
C5_StatusIsPure ==
    (rlRet.op = "getRateLimitStatus") =>
        /\ requestCount = rlRet.preCount
        /\ requestWindow = rlRet.preWindow
        /\ rlRet.currentRequests = requestCount
        /\ rlRet.remaining >= 0
        /\ requestCount <= maxRequests => rlRet.remaining = maxRequests - requestCount
        /\ requestCount > maxRequests => rlRet.remaining = 0
        /\ rlRet.resetTime = requestWindow + oneHour

\* C5 witness: a status call on an expired window whose count exceeds a quota
\* that configure() has lowered.
C5_Witness ==
    /\ rlRet.op = "getRateLimitStatus"
    /\ requestCount > maxRequests
    /\ now - requestWindow > oneHour

(***************************************************************************)
(* Response cache: claims.                                                 *)
(***************************************************************************)
EntriesOf(m, k) == {i \in 1..Len(m) : m[i].key = k}

SameEntry(m1, m2, k) ==
    /\ MapHas(m1, k) <=> MapHas(m2, k)
    /\ MapHas(m1, k) => MapGet(m1, k) = MapGet(m2, k)

C7_SetOverwrites ==
    /\ (cacheRet.op = "setCached" /\ cacheRet.enabled) =>
          /\ MapHas(cache, cacheRet.key)
          /\ MapGet(cache, cacheRet.key).data = cacheRet.data
          /\ MapGet(cache, cacheRet.key).expiry = now + cacheRet.ttl
          /\ \A k \in Keys \ {cacheRet.key} : SameEntry(cache, cacheRet.pre, k)
    /\ \A k \in Keys : Cardinality(EntriesOf(cache, k)) <= 1
    /\ (cacheRet.op = "getCached" /\ cacheRet.value.hit) =>
          cacheRet.value.data = lastSet[cacheRet.key]

\* C7 witness: setCached over an expired entry that held another value.
C7_Witness ==
    /\ cacheRet.op = "setCached" /\ cacheRet.enabled
    /\ MapHas(cacheRet.pre, cacheRet.key)
    /\ MapGet(cacheRet.pre, cacheRet.key).expiry < now
    /\ MapGet(cacheRet.pre, cacheRet.key).data # cacheRet.data

\* C8: clearCache with no key removes every entry; clearCache with a key k,
\* the empty string included, removes the entry of k and leaves every other
\* entry unchanged.
C8_ClearCacheByKey ==
    (cacheRet.op = "clearCache") =>
        IF ~cacheRet.given
        THEN cache = <<>>
        ELSE /\ ~MapHas(cache, cacheRet.key)
             /\ \A k \in Keys \ {cacheRet.key} : SameEntry(cache, cacheRet.pre, k)

(***************************************************************************)
(* Nonce tracker: claims.                                                  *)
(***************************************************************************)

\* C9: the set of used nonces never holds more than the capacity (1000 in
\* the sources, MaxTracked here).
C9_NonceSetBounded == Len(usedNonces) <= MaxTracked

\* C9 witness: a generation into a full set, which is full again after it.
C9_Witness ==
    /\ nonceRet.op = "generateNonce" /\ nonceRet.ok /\ nonceRet.nonce # NoNonce
    /\ Len(nonceRet.pre) = MaxTracked
    /\ Len(usedNonces) = MaxTracked

\* C10: a successful generateNonce appends the new nonce and, when that puts
\* the set above capacity, removes exactly the earliest-inserted one; after
\* capacity + 1 generations from an empty set the set holds capacity
\* entries, the first nonce generated is absent and the newest is present.
C10_EvictsOldest ==
    /\ (nonceRet.op = "generateNonce" /\ nonceRet.ok /\ nonceRet.nonce # NoNonce) =>
          IF Len(nonceRet.pre) >= MaxTracked
          THEN usedNonces = Append(Tail(nonceRet.pre), nonceRet.nonce)
          ELSE usedNonces = Append(nonceRet.pre, nonceRet.nonce)
    /\ Len(issued) = MaxTracked + 1 =>
          /\ Len(usedNonces) = MaxTracked
          /\ issued[1] \notin Range(usedNonces)
          /\ issued[MaxTracked + 1] \in Range(usedNonces)

\* C10 witness: the generation that follows capacity generations from empty.
C10_Witness ==
    /\ nonceRet.op = "generateNonce" /\ nonceRet.ok
    /\ Len(issued) = MaxTracked + 1
    /\ Len(nonceRet.pre) = MaxTracked

\* C11: generateNonce draws at most 10 candidates and fails only if all 10
\* were already in the used-nonce set; if a drawn candidate, the 10th
\* included, is not in the set the call succeeds, returns it and inserts it.
\* A failed call leaves the set unchanged.
C11_ExhaustionOnlyWhenAllCollide ==
    (nonceRet.op = "generateNonce" /\ nonceRet.enabled) =>
        LET fresh == {i \in 1..Len(nonceRet.drawn) :
                          nonceRet.drawn[i] \notin Range(nonceRet.pre)}
        IN  /\ Len(nonceRet.drawn) <= maxAttempts
            /\ ~nonceRet.ok => (fresh = {} /\ Len(nonceRet.drawn) = maxAttempts)
            /\ ~nonceRet.ok => usedNonces = nonceRet.pre
            /\ fresh # {} =>
                  /\ nonceRet.ok
                  /\ \E i \in fresh : nonceRet.nonce = nonceRet.drawn[i]
                  /\ nonceRet.nonce \in Range(usedNonces)

(***************************************************************************)
(* CSRF token manager: claims.                                             *)
(***************************************************************************)

\* C12: with nonces disabled generateNonce returns null and leaves the
\* used-nonce set unchanged; with CSRF disabled getCSRFToken returns null and
\* leaves the cached token and its expiry unchanged.
C12_DisabledReturnsNull ==
    /\ (nonceRet.op = "generateNonce" /\ ~nonceRet.enabled) =>
          /\ nonceRet.ok
          /\ nonceRet.nonce = NoNonce
          /\ usedNonces = nonceRet.pre
    /\ (csrfRet.op = "getCSRFToken" /\ ~csrfRet.enabled) =>
          /\ csrfRet.value = NoToken
          /\ csrfToken = csrfRet.preToken
          /\ csrfExpiry = csrfRet.preExpiry

\* C12 witness: both switches off, a nonce tracked, and getCSRFToken called
\* with no token cached (an enabled call would mint one).
C12_Witness ==
    /\ nonceRet.op = "generateNonce" /\ ~nonceRet.enabled /\ usedNonces # <<>>
    /\ csrfRet.op = "getCSRFToken" /\ ~csrfRet.enabled /\ csrfRet.preToken = NoToken

\* C13: with CSRF enabled a getCSRFToken call made strictly before the stored
\* expiry (issue time + 30 minutes) returns the cached token and changes
\* neither token nor expiry; a call made at or after the expiry mints a
\* different token and sets the expiry to the call's time + 30 minutes.
C13_TokenLifetime ==
    /\ csrfToken # NoToken => csrfExpiry = csrfToken.at + csrfLifetime
    /\ (csrfRet.op = "getCSRFToken" /\ csrfRet.enabled /\ csrfRet.preToken # NoToken) =>
          IF now < csrfRet.preExpiry
          THEN /\ csrfRet.value = csrfRet.preToken
               /\ csrfToken = csrfRet.preToken
               /\ csrfExpiry = csrfRet.preExpiry
          ELSE /\ csrfRet.value # csrfRet.preToken
               /\ csrfRet.value # NoToken
               /\ csrfToken = csrfRet.value
               /\ csrfExpiry = now + csrfLifetime

\* C13 witness: a call made at the very instant of the expiry.
C13_Witness ==
    /\ csrfRet.op = "getCSRFToken" /\ csrfRet.enabled /\ csrfRet.preToken # NoToken
    /\ now = csrfRet.preExpiry

\* C15: clearCSRFToken leaves token and expiry absent (a no-op when they are
\* absent already), and the next getCSRFToken with CSRF enabled mints a token
\* with expiry = now + 30 minutes, also when the cleared token had not expired.
C15_ClearForcesMint ==
    /\ (csrfRet.op = "clearCSRFToken") =>
          /\ csrfToken = NoToken
          /\ csrfExpiry = NoTime
    /\ (csrfRet.op = "getCSRFToken" /\ csrfRet.enabled /\ csrfRet.preToken = NoToken) =>
          /\ csrfRet.value # NoToken
          /\ csrfRet.value.at = now
          /\ csrfToken = csrfRet.value
          /\ csrfExpiry = now + csrfLifetime

\* C15 witness: a token is minted although the cleared one had not expired.
C15_Witness ==
    /\ csrfRet.op = "getCSRFToken" /\ csrfRet.enabled /\ csrfRet.preToken = NoToken
    /\ csrfRet.cleared # NoTime /\ now < csrfRet.cleared
    /\ csrfRet.value # NoToken

(***************************************************************************)
(* Signer: claims.                                                         *)
(***************************************************************************)

\* The objects with the entries of o in any insertion order.
Orders(o) ==
    {q \in [1..Len(o) -> Range(o)] : \A e \in Range(o) : \E i \in 1..Len(o) : q[i] = e}

\* C16: the string the signer hashes is the same for every insertion order
\* of the same key/value mapping.
C16_OrderIndependent ==
    sigRet.op = "sign" =>
        \A q \in Orders(sigRet.params) :
            signatureString(sigRet.variant, q) = sigRet.string

\* C16 witness: a signed object whose keys were not inserted in sorted order.
C16_Witness ==
    /\ sigRet.op = "sign"
    /\ Len(sigRet.params) >= 2
    /\ StringLess(sigRet.params[2].k, sigRet.params[1].k)

\* The rendering the specification describes: null and absent values as the
\* empty string, every other value as its own string form.
OwnStringForm(value) ==
    IF value.t \in {"null", "undefined"} THEN <<>> ELSE StringOf(value)

\* C17: in the hashed string every value appears in its own string form (0 as
\* "0", false as "false"), and only null or absent values appear as the empty
\* string, in generateSignature (v1.3.0) and createSignature (v1.0.0, v3.8.1).
C17_ValuesKeepStringForm ==
    sigRet.op = "sign" =>
        LET sortedKeys == sortKeys(ObjectKeys(sigRet.params))
        IN  sigRet.string =
                Join([i \in 1..Len(sortedKeys) |->
                         sortedKeys[i] \o <<Equals>>
                             \o OwnStringForm(ObjectGet(sigRet.params, sortedKeys[i]))],
                     Amp)

(***************************************************************************)
(* Request functions: claims.                                              *)
(***************************************************************************)

\* C14: of the POST requests made with CSRF enabled and no clearCSRFToken in
\* between, every one sent before the expiry of the token the previous one
\* carried carries that same token, in the makePostRequest of every variant.
C14_PostsShareToken ==
    (/\ reqRet.op = "call" /\ reqRet.method = "makePostRequest"
     /\ reqRet.outcome = "sent" /\ reqRet.pre.enableCSRF
     /\ reqRet.pre.lastPost # NoPost
     /\ now < reqRet.pre.lastPost.expiry)
        => reqRet.flight.csrf = reqRet.pre.lastPost.token

\* C18: no request function changes the parameter object the caller passed:
\* after the call, and after the response, it has the keys and values it had.
C18_CallerObjectUntouched ==
    reqRet.op \in {"call", "response"} => params = reqRet.pre.params

\* C19: a request made while scriptUrl, apiToken or hmacSecret is missing
\* throws the configuration error, sends nothing, and leaves requestCount,
\* requestWindow, the cache, the nonce set and the CSRF token as they were.
C19_ConfigurationCheckedFirst ==
    (reqRet.op = "call" /\ ~reqRet.pre.configured) =>
        /\ reqRet.outcome = "threw"
        /\ reqRet.error.kind = "config"
        /\ requestCount = reqRet.pre.count
        /\ requestWindow = reqRet.pre.window
        /\ cache = reqRet.pre.cache
        /\ usedNonces = reqRet.pre.used
        /\ csrfToken = reqRet.pre.token
        /\ csrfExpiry = reqRet.pre.expiry

\* C20: on a non-success status the request throws; with a body that parses
\* as a structured error the error carries the server's code, with a body
\* that does not parse it is the HTTP error with the raw status and not the
\* parser's exception.
C20_ErrorResponses ==
    (reqRet.op = "response" /\ ~reqRet.response.ok) =>
        /\ reqRet.outcome = "threw"
        /\ reqRet.response.body = "error" =>
              reqRet.error.kind = "server" /\ reqRet.error.code = reqRet.response.code
        /\ reqRet.response.body = "garbage" =>
              reqRet.error.kind = "http" /\ reqRet.error.status = reqRet.response.status

(***************************************************************************)
(* Rate limiter: the window boundary.                                      *)
(***************************************************************************)

\* C27: a checkRateLimit call made at exactly windowStart + 1 hour does not
\* reset the window: with the count at maxRequests it fails and the reset
\* time it reports is the current time.  A call at any later instant resets
\* the window to (0, now) before the limit check and so succeeds.
C27_WindowBoundary ==
    (rlRet.op = "checkRateLimit" /\ rlRet.enabled) =>
        IF now > rlRet.preWindow + oneHour
        THEN /\ rlRet.ok
             /\ requestWindow = now
             /\ requestCount = 1
        ELSE /\ requestWindow = rlRet.preWindow
             /\ (now = rlRet.preWindow + oneHour /\ rlRet.preCount = maxRequests) =>
                   /\ ~rlRet.ok
                   /\ rlRet.resetTime = now
                   /\ requestCount = rlRet.preCount

\* C27 witness: a full window, and a call exactly one hour after it began.
C27_Witness ==
    /\ rlRet.op = "checkRateLimit" /\ rlRet.enabled
    /\ now = rlRet.preWindow + oneHour
    /\ rlRet.preCount = maxRequests
    /\ requestWindow = rlRet.preWindow

(***************************************************************************)
(* Checksum validation: claims.                                            *)
(***************************************************************************)

\* The hash of the data the checksum of a response object covers: data.data
\* in v3.8.1, the object without its checksum fields in v1.2.0.
CoveredHash(v, data) ==
    IF v = "v381" THEN SHA256(JSONvalue(ObjectGet(data, kData)))
    ELSE SHA256(JSONstringify(ObjectDelete(ObjectDelete(data, kChecksum),
                                           kChecksumAlgorithm)))

\* C25: validateChecksum returns true only if the checksum the data carries
\* equals the hash of the data it covers; it returns false when the checksum
\* is missing or does not match.
C25_ChecksumCompared ==
    (sumRet.op = "validateChecksum" /\ sumRet.value) =>
        ObjectGet(received, kChecksum) = JsString(CoveredHash(sumRet.variant, received))

(***************************************************************************)
(* Requests: what reaches the network.                                     *)
(***************************************************************************)

\* C24: with nonces enabled, every authenticated request of v1.2.0 and v1.3.0
\* that reaches the network carries a nonce, and that nonce was not in the
\* used-nonce set when the request was made.
C24_RequestsCarryFreshNonce ==
    (/\ reqRet.op = "call" /\ reqRet.outcome = "sent"
     /\ enableNonce /\ variant \in {"v120", "v130"}) =>
        /\ reqRet.flight.nonce # NoNonce
        /\ reqRet.flight.nonce \notin Range(reqRet.pre.used)

\* s has t as a substring.
Contains(s, t) ==
    \E i \in 1..(Len(s) - Len(t) + 1) : SubSeq(s, i, i + Len(t) - 1) = t

\* C30: the string the signer hashes for a request never contains a signature
\* field, also when the parameter object was passed to an earlier request.
C30_SignedWithoutSignature ==
    (reqRet.op = "call" /\ reqRet.outcome = "sent") =>
        ~Contains(reqRet.flight.signed, kSignature \o <<Equals>>)

\* C21: a makeRequest call that looked in the cache and stores the successful
\* response stores it under the key it looked up.
C21_StoredUnderLookupKey ==
    (/\ reqRet.op = "response" /\ reqRet.method = "makeRequest"
     /\ reqRet.flight.key # NoKey /\ reqRet.key # NoKey) =>
        reqRet.key = reqRet.flight.key

\* C23: every request eventually completes: a request suspended at its
\* network call is answered or, when its timeout elapses, aborted.
C23_EveryRequestCompletes == (inflight # <<>>) ~> (inflight = <<>>)

\* C26: a request rejected by the rate limiter has no other effect: the
\* rate-limit error reaches the caller, nothing goes to the network, and the
\* cache, the used nonces, the CSRF token, the caller's parameters and the
\* counters are as they were before the call.
C26_RejectionHasNoOtherEffect ==
    (reqRet.op = "call" /\ reqRet.error.kind = "rateLimit") =>
        /\ reqRet.outcome = "threw"
        /\ reqRet.flight.wire = <<>>
        /\ reqRet.key = NoKey
        /\ cache = reqRet.pre.cache
        /\ usedNonces = reqRet.pre.used
        /\ csrfToken = reqRet.pre.token
        /\ csrfExpiry = reqRet.pre.expiry
        /\ params = reqRet.pre.params
        /\ requestCount = reqRet.pre.count
        /\ requestWindow = reqRet.pre.window

C26_Witness ==
    /\ reqRet.op = "call" /\ reqRet.error.kind = "rateLimit"
    /\ reqRet.pre.cache # <<>>
    /\ reqRet.pre.used # <<>>
    /\ reqRet.pre.token # NoToken

\* The cache the step found holds an entry under the key the step used, and
\* the entry has not expired.
FoundUnexpired ==
    /\ reqRet.key # NoKey
    /\ MapHas(reqRet.pre.cache, reqRet.key)
    /\ now <= MapGet(reqRet.pre.cache, reqRet.key).expiry

\* C22: a makeRequest call of v1.2.0 or v1.3.0 that may use the cache and
\* finds an unexpired entry returns the cached response without a network
\* call, a signature, a nonce or a CSRF token; a request with useCache false
\* neither reads nor writes the cache, at its call or at its response.
C22_CacheHitShortCircuits ==
    /\ (reqRet.op = "call" /\ reqRet.useCache /\ FoundUnexpired) =>
           /\ reqRet.outcome = "returned"
           /\ reqRet.value = MapGet(reqRet.pre.cache, reqRet.key).data
           /\ reqRet.flight.wire = <<>>
           /\ reqRet.flight.signed = <<>>
           /\ reqRet.flight.nonce = NoNonce
           /\ usedNonces = reqRet.pre.used
           /\ csrfToken = reqRet.pre.token
           /\ csrfExpiry = reqRet.pre.expiry
           /\ cache = reqRet.pre.cache
    /\ (reqRet.op \in {"call", "response"} /\ reqRet.method = "makeRequest"
        /\ ~reqRet.useCache) =>
           /\ reqRet.key = NoKey
           /\ cache = reqRet.pre.cache

C22_Witness ==
    /\ reqRet.op = "call" /\ reqRet.useCache /\ FoundUnexpired
    /\ reqRet.outcome = "returned"
    /\ reqRet.pre.used # <<>>

\* C28: the rate limiter comes before the cache.  A makeRequest call answered
\* from the cache has been counted, and with the quota of the window used up
\* a call fails with the rate-limit error whatever the cache holds.
C28_RateLimitBeforeCache ==
    /\ (/\ reqRet.op = "call" /\ reqRet.method = "makeRequest"
        /\ reqRet.outcome = "returned" /\ rateLimitEnabled) =>
           requestCount = (IF requestWindow = reqRet.pre.window THEN reqRet.pre.count
                           ELSE 0) + 1
    /\ (/\ reqRet.op = "call" /\ rateLimitEnabled
        /\ reqRet.pre.count >= maxRequests
        /\ now - reqRet.pre.window <= oneHour) =>
           /\ reqRet.error.kind = "rateLimit"
           /\ reqRet.outcome = "threw"
           /\ reqRet.value = NoData

\* A call of v1.2.0 is turned away although the cache holds an unexpired
\* response under its key.
C28_Witness ==
    /\ reqRet.op = "call" /\ reqRet.error.kind = "rateLimit" /\ variant = "v120"
    /\ MapHas(cache, sList \o sColon \o JSONstringify(params))
    /\ now <= MapGet(cache, sList \o sColon \o JSONstringify(params)).expiry
    /\ requestCount = maxRequests

\* C29: with several requests in flight, under every interleaving of calls,
\* responses and clock readings the requests admitted within one window
\* never exceed maxRequests, and requestCount is the number of requests
\* admitted since the window started.
C29_AdmissionsUnderInterleaving ==
    rateLimitEnabled =>
        /\ admitted <= maxRequests
        /\ requestCount = admitted

\* Two requests admitted in a later window are both in flight and have used
\* up its quota.
C29_Witness ==
    /\ Len(inflight) >= 2
    /\ requestWindow > oneHour
    /\ admitted >= 2
    /\ reqRet.op = "call" /\ reqRet.outcome = "sent"

(***************************************************************************)
(* Signer: distinct mappings.                                              *)
(***************************************************************************)

\* The mapping of an object: its entries without their order.
MappingOf(o) == {<<o[i].k, o[i].v>> : i \in 1..Len(o)}

\* The objects of up to MaxParams entries whose values are strings, one
\* insertion order for each mapping.
StringObjects ==
    LET strings == {value \in SigValues : value.t = "string"}
        entries == {[k |-> k, v |-> value] : k \in SigKeys, value \in strings}
    IN  UNION {{q \in [1..n -> entries] :
                   \A i \in 1..(n - 1) : StringLess(q[i].k, q[i + 1].k)} :
               n \in 0..MaxParams}

\* C31: two parameter mappings that differ in a key or a value give different
\* strings to hash, also when keys and values contain '=' and '&'; checked
\* for mappings whose values are strings.
C31_DistinctMappingsDistinctStrings ==
    (sigRet.op = "sign" /\ \A i \in 1..Len(sigRet.params) : sigRet.params[i].v.t = "string") =>
        \A q \in StringObjects :
            MappingOf(q) # MappingOf(sigRet.params) =>
                signatureString(sigRet.variant, q) # sigRet.string

(***************************************************************************)
(* Response cache: lazy eviction.                                          *)
(***************************************************************************)

\* C32: getCached(k) leaves the entry of every key other than k as it was,
\* and an entry leaves the cache only in a getCached on its own key after
\* its expiry or in a clearCache: no step sweeps expired entries.
C32_LazyEviction ==
    /\ [](cacheRet.op = "getCached" =>
             \A k \in Keys \ {cacheRet.key} : SameEntry(cache, cacheRet.pre, k))
    /\ [][\A k \in Keys :
              (MapHas(cache, k) /\ ~MapHas(cache', k)) =>
                  \/ cacheRet'.op = "clearCache"
                  \/ /\ cacheRet'.op = "getCached" /\ cacheRet'.key = k
                     /\ now > MapGet(cache, k).expiry]_vars

\* A getCached on one key has left the expired entry of another key in place.
C32_Witness ==
    /\ cacheRet.op = "getCached"
    /\ \E k \in Keys \ {cacheRet.key} :
           /\ MapHas(cache, k) /\ now > MapGet(cache, k).expiry
           /\ SameEntry(cache, cacheRet.pre, k)

(***************************************************************************)
(* Requests and reconfiguration.                                           *)
(***************************************************************************)

\* C33: the configuration a request uses after its network suspension is the
\* one in force when it started: the cache entry a v1.2.0 makeRequest stores
\* expires cacheTimeout after the response, with the cacheTimeout of the
\* time of the call.
C33_ConfigFixedInFlight ==
    (reqRet.op = "response" /\ reqRet.key # NoKey) =>
        MapGet(cache, reqRet.key).expiry = now + reqRet.flight.cacheTimeout

\* C34: a makeRequest that fails after the rate limiter let it through (error
\* status, unparseable body, network failure, timeout) stores nothing in the
\* cache and keeps its quota unit: cache, requestCount and requestWindow are
\* as the failing step found them.
C34_FailureKeepsCacheAndCount ==
    (reqRet.op \in {"response", "timeout", "failure"} /\ reqRet.outcome = "threw") =>
        /\ cache = reqRet.pre.cache
        /\ reqRet.key = NoKey
        /\ requestCount = reqRet.pre.count
        /\ requestWindow = reqRet.pre.window

\* A counted request that was to be cached ends in an error.
C34_Witness ==
    /\ reqRet.op = "response" /\ reqRet.outcome = "threw"
    /\ reqRet.flight.useCache
    /\ requestCount >= 1
    /\ admitted >= 1

(***************************************************************************)
(* Overlapping requests for the same key.                                  *)
(***************************************************************************)

\* The cache the step found holds no unexpired entry under the step's key.
FoundNothing ==
    /\ reqRet.key # NoKey
    /\ MapHas(reqRet.pre.cache, reqRet.key) =>
           now > MapGet(reqRet.pre.cache, reqRet.key).expiry

\* The requests in flight that look for, and will store under, the key k.
FlightsFor(k) == {i \in 1..Len(inflight) : inflight[i].key = k}

\* C35: a v1.2.0 makeRequest that starts while another one for the same
\* action and parameters is suspended, and finds no entry, goes to the network
\* as well; every one that completes stores its response over what is there,
\* so that after both the key has exactly one entry, holding the response of
\* the one that completed last.
C35_OverlappingRequestsLastWins ==
    /\ (/\ reqRet.op = "call" /\ reqRet.useCache /\ FoundNothing
        /\ reqRet.error.kind = "none") =>
           /\ reqRet.outcome = "sent"
           /\ inflight # <<>> /\ inflight[Len(inflight)] = reqRet.flight
    /\ (reqRet.op = "response" /\ reqRet.outcome = "returned" /\ reqRet.flight.useCache) =>
           /\ reqRet.key = reqRet.flight.key
           /\ Cardinality(EntriesOf(cache, reqRet.key)) = 1
           /\ MapGet(cache, reqRet.key).data = reqRet.response.data
           /\ reqRet.value = reqRet.response.data

\* The second of two overlapping requests completes and replaces the response
\* the first one stored while it was suspended.
C35_Witness ==
    /\ reqRet.op = "response" /\ reqRet.outcome = "returned" /\ reqRet.flight.useCache
    /\ inflight = <<>>
    /\ MapHas(reqRet.pre.cache, reqRet.key)
    /\ MapGet(reqRet.pre.cache, reqRet.key).data # reqRet.response.data
    /\ MapGet(cache, reqRet.key).data = reqRet.response.data

(***************************************************************************)
(* configure: claims.                                                      *)
(***************************************************************************)

\* The cases in which configure of v1.0.0 is to throw.
MustRefuse_v100(options) ==
    \/ ~options.given
    \/ Missing(options.scriptUrl) \/ Missing(options.apiToken) \/ Missing(options.hmacSecret)
    \/ options.enforceHttps # "false" /\ ~StartsWith(options.scriptUrl, sHttps)

\* C36: configure of v1.0.0 is all-or-nothing: when it throws (no options, a
\* credential missing, or a scriptUrl that is not HTTPS while the same options
\* do not switch enforcement off) the stored configuration is what it was;
\* it throws in these cases and no others, and v3.8.1's configure likewise
\* changes nothing when it throws.
C36_ConfigureAllOrNothing ==
    /\ (cfgRet.op = "configure" /\ cfgRet.threw) =>
           /\ config = cfgRet.pre.config
           /\ enforceHttps = cfgRet.pre.enforceHttps
    /\ (cfgRet.op = "configure" /\ variant = "v100") =>
           (cfgRet.threw <=> MustRefuse_v100(cfgRet.options))

\* A configured v1.0.0 client is given a complete set of options with a
\* plain-HTTP scriptUrl, and refuses it.
C36_Witness ==
    /\ cfgRet.op = "configure" /\ cfgRet.threw /\ variant = "v100"
    /\ cfgRet.pre.config.scriptUrl = sHttpsUrl
    /\ cfgRet.options.given
    /\ cfgRet.options.scriptUrl = sHttpUrl
    /\ cfgRet.options.apiToken = <<85>> /\ cfgRet.pre.config.apiToken = <<84>>
    /\ ~Missing(cfgRet.options.hmacSecret)

\* The last n elements of s (all of s when it is shorter).
LastOf(s, n) == SubSeq(s, (IF Len(s) > n THEN Len(s) - n + 1 ELSE 1), Len(s))

NoRepeat(s) == \A i, j \in 1..Len(s) : s[i] = s[j] => i = j

\* C37: a nonce returned by generateNonce was not in the used set when the
\* call began; the tracked nonces are pairwise distinct; and among the nonces
\* issued since the last clearNonces, any run of up to capacity (1000 in the
\* source) consecutive ones has no repeat.
C37_IssuedNoncesFresh ==
    /\ (nonceRet.op = "generateNonce" /\ nonceRet.ok /\ nonceRet.nonce # NoNonce) =>
           /\ nonceRet.nonce \notin Range(nonceRet.pre)
           /\ nonceRet.nonce \in Range(usedNonces)
    /\ NoRepeat(usedNonces)
    /\ NoRepeat(LastOf(issued, MaxTracked))
    /\ \A i \in 1..Len(issued) : \A j \in i..Len(issued) :
           j - i + 1 <= MaxTracked => NoRepeat(SubSeq(issued, i, j))

\* A call on a full set that drew a tracked nonce first and then returned a
\* fresh one, equal to a nonce issued more than capacity calls earlier.
C37_Witness ==
    /\ nonceRet.op = "generateNonce" /\ nonceRet.ok /\ nonceRet.attempts = 2
    /\ Len(nonceRet.pre) = MaxTracked
    /\ nonceRet.nonce = usedNonces[Len(usedNonces)]
    /\ Len(issued) > MaxTracked
    /\ issued[Len(issued)] = issued[1]

CheckedIn(inputs) == Cardinality({i \in 1..Len(inputs) : inputs[i].checked})

\* C38: init() on an initialized widget changes nothing; the selected
\* category and brand lists hold no id twice; and while the sidebar is on
\* the page, the count it displays is the number of checked category, brand
\* and price inputs.
C38_SidebarFiltersConsistent ==
    /\ (sideRet.op = "init" /\ sideRet.initialized) => sideRet.unchanged
    /\ NoRepeat(selectedFilters.categories)
    /\ NoRepeat(selectedFilters.brands)
    /\ document.sidebar =>
           document.filterCount = CheckedIn(document.categoriesItems)
                                  + CheckedIn(document.brandsItems)
                                  + CheckedIn(document.priceItems)

====
